---- MODULE Spec2Model ----
(***************************************************************************)
(* Memory-and-visibility optimisation subsystem of the collaborative       *)
(* drawing board: StrokeHistoryManager (RetentionManager), StrokeCache     *)
(* (GeometryCache), ViewportCuller (SpatialIndex) and StrokePool.          *)
(*                                                                         *)
(* The four components are independent state machines; each has its own    *)
(* specification (SpecHist, SpecCache, SpecCull, SpecPool) over the        *)
(* variables of the module.  SpecHistFair adds the fairness of the task    *)
(* queue to SpecHist, and SpecCacheShort gives the cache strokes of fewer  *)
(* than two points as well.                                                *)
(*                                                                         *)
(* Time: Date.now() is the variable now, counted in hours (3 600 000 ms),  *)
(* so that the importance formulas, which divide ages by one hour, stay    *)
(* exact in integer arithmetic.  Memory thresholds are in bytes            *)
(* (config.maxMemoryUsage * 1024 * 1024).                                  *)
(***************************************************************************)
EXTENDS Integers, Sequences, FiniteSets, TLC

VARIABLES
    now,        \* Date.now(), in hours
    hCfg,       \* StrokeHistoryManager.config
    hStrokes,   \* StrokeHistoryManager.strokes : Map, in insertion order
    hBackup,    \* StrokeHistoryManager.backupStorage : Map id -> stroke
    hCount,     \* stats.currentStrokeCount
    hMem,       \* stats.currentMemoryUsage
    hPending,   \* cleanups scheduled with setTimeout(..., 0) and not yet run
    hLast,      \* the last call on the manager and what it observed
    cCfg,       \* StrokeCache.config
    cEnt,       \* the CacheEntry objects that are reachable, by object identity
    cMap,       \* StrokeCache.cache : Map stroke id -> CacheEntry
    cHead,      \* StrokeCache.head (0 is null)
    cTail,      \* StrokeCache.tail (0 is null)
    cStats,     \* StrokeCache.stats
    cLast,      \* the last call on the cache and what it observed
    cRun,       \* the strokes created so far, while the cache has only seen
                \* create() calls with pairwise distinct ids
    vCfg,       \* ViewportCuller.config
    vStrokes,   \* ViewportCuller.strokesWithBounds
    vIndex,     \* ViewportCuller.spatialIndex
    vNeedsRebuild,  \* ViewportCuller.needsRebuild
    vStats,     \* ViewportCuller.stats
    vTimer,     \* ViewportCuller.updateTimer is set
    vGiven,     \* the stroke array last passed to updateStrokes, and whether
                \* the culler has not been destroyed since
    vLast,      \* the last call on the culler and what it returned
    pCfg,       \* StrokePool.config
    pRecs,      \* the PooledStroke objects, by object identity
    pPool,      \* StrokePool.pool, the free list
    pStats,     \* StrokePool.stats
    pTimer,     \* StrokePool.cleanupTimer is set
    pLast,      \* the last call on the pool
    pRun        \* the shape of the calls on the pool since construction

histVars == <<hCfg, hStrokes, hBackup, hCount, hMem, hPending, hLast>>

cacheVars == <<cCfg, cEnt, cMap, cHead, cTail, cStats, cLast, cRun>>

cullVars == <<vCfg, vStrokes, vIndex, vNeedsRebuild, vStats, vTimer, vGiven, vLast>>

poolVars == <<pCfg, pRecs, pPool, pStats, pTimer, pLast, pRun>>

notHist == <<cacheVars, cullVars, poolVars>>

notCache == <<histVars, cullVars, poolVars>>

notCuller == <<histVars, cacheVars, poolVars>>

notPool == <<histVars, cacheVars, cullVars>>

vars == <<now, histVars, cacheVars, cullVars, poolVars>>

(***************************************************************************)
(* Bounds of the model.                                                    *)
(***************************************************************************)
NumIds == 2        \* stroke ids 1..NumIds
MaxTime == 1       \* the clock stops at MaxTime hours
MaxPending == 1    \* deferred cleanups in the task queue
MaxAccess == 2     \* accessCount stops growing here
MaxMod == 1        \* modificationCount stops growing here
NumCacheIds == 3   \* the cache is handed strokes with ids 1..NumCacheIds
MaxRequests == 5   \* stats.totalRequests of the cache stops growing here
MaxInvalidations == 1   \* stats.invalidations stops growing here
MaxSubdivisions == 2    \* the deepest maxSubdivisions of a culler configuration
NumCullStrokes == 4     \* the culler is handed strokes with ids 1..NumCullStrokes
MaxRecords == 4         \* PooledStroke objects createStroke may make
MaxAllocations == 3     \* stats.totalAllocations of the pool stops growing here
MaxOverRelease == 1     \* stats.activeObjects of the pool stops falling at -MaxOverRelease

Ids == 1..NumIds

Min(a, b) == IF a <= b THEN a ELSE b
Max(a, b) == IF a >= b THEN a ELSE b

(***************************************************************************)
(* DrawingStroke: id, points (the length of the flat coordinate array),    *)
(* size, timestamp.  The colour is always "#000000" (7 characters) and     *)
(* ids are one character long.                                             *)
(***************************************************************************)
\* The strokes handed to the manager: an empty local stroke with an old
\* timestamp and a two-point stroke stamped MaxTime, which addStroke is given
\* as collaborative.
HistStrokeData ==
    {[points |-> 0, size |-> 5, timestamp |-> 0],
     [points |-> 4, size |-> 5, timestamp |-> MaxTime]}

HistStrokeInputs ==
    {[id |-> i, points |-> d.points, size |-> d.size, timestamp |-> d.timestamp] :
        i \in Ids, d \in HistStrokeData}

(***************************************************************************)
(* Insertion-ordered Map<string, ManagedStroke> as a sequence.             *)
(***************************************************************************)
MapHas(m, id) == \E i \in 1..Len(m) : m[i].stroke.id = id

MapIdx(m, id) == CHOOSE i \in 1..Len(m) : m[i].stroke.id = id

MapGet(m, id) == m[MapIdx(m, id)]

\* Map.set: an existing key keeps its position, a new key goes last
MapSet(m, ms) ==
    IF MapHas(m, ms.stroke.id)
    THEN [m EXCEPT ![MapIdx(m, ms.stroke.id)] = ms]
    ELSE Append(m, ms)

MapDelete(m, id) == SelectSeq(m, LAMBDA e : e.stroke.id # id)

(***************************************************************************)
(* StrokeHistoryManager                                                    *)
(*                                                                         *)
(* Importance scores are kept as integers: the score of the code times     *)
(* 2 400 000 (= 10 * 10 * 5 * 10 * 480, the denominators of the five       *)
(* factors of updateImportanceScore).  metadata.importance is overwritten  *)
(* by updateImportanceScore before cleanup() reads it, which is its only   *)
(* reader, so the score is computed where it is read and the stored copy   *)
(* (and calculateInitialImportance, which only initialises it) is not      *)
(* part of the state.  The write-only timing and                           *)
(* throughput statistics (totalCleanups, totalStrokesCleaned,              *)
(* avgCleanupTime, totalMemorySaved, totalStrokesBackedUp,                 *)
(* cleanupEfficiency) are never read by the manager and are not modelled.  *)
(***************************************************************************)

\* HistoryCleanupConfig; maxMemoryBytes is config.maxMemoryUsage * 1024 * 1024,
\* collaborativeRetentionBonus10 is ten times the (default 2.5) multiplier
HistConfig(maxHistorySize, maxMemoryBytes, maxStrokeAge, minRetainedStrokes, enableBackup) ==
    [maxHistorySize |-> maxHistorySize,
     maxMemoryBytes |-> maxMemoryBytes,
     maxStrokeAge |-> maxStrokeAge,
     minRetainedStrokes |-> minRetainedStrokes,
     collaborativeRetentionBonus10 |-> 25,
     enableBackup |-> enableBackup]

\* The configurations explored: the size cap binding with the floor below it,
\* the floor above the size cap (and no backup), the memory budget binding
\* (one stroke fits in 300 bytes, two do not), the age limit binding.
HistConfigs ==
    {HistConfig(1, 100000, 100, 1, TRUE),
     HistConfig(1, 100000, 100, 2, FALSE),
     HistConfig(2, 300, 100, 1, TRUE),
     HistConfig(2, 100000, 0, 0, TRUE)}

estimateStrokeMemoryUsage(stroke) ==
    200 + stroke.points * 8 + (7 + 1) * 2

importanceOf(ms, cfg, t) ==
    Min(10 + ms.accessCount, 30)
    * Max(1, 20 - 10 * (t - ms.lastAccessed))
    * Min(5 + ms.modificationCount, 10)
    * (IF ms.isCollaborative THEN cfg.collaborativeRetentionBonus10 ELSE 10)
    * Max(48, 480 - 10 * (t - ms.addedAt))

\* updateImportanceScore: the stroke with its score as of time t
updateImportanceScore(ms, cfg, t) ==
    [ms |-> ms, importance |-> importanceOf(ms, cfg, t)]

\* The manager's mutable data as one value: m = [strokes, backup, count, mem]
HistState == [strokes |-> hStrokes, backup |-> hBackup, count |-> hCount, mem |-> hMem]

\* checkCleanupTriggers that looks at the resident count only
checkCountTrigger(m, cfg) ==
    m.count > cfg.maxHistorySize

checkCleanupTriggers(m, cfg) ==
    m.mem > cfg.maxMemoryBytes \/ m.count > cfg.maxHistorySize

addStroke(m, stroke, isCollaborative, cfg, t) ==
    LET memoryUsage == estimateStrokeMemoryUsage(stroke)
        managed == [stroke |-> stroke,
                    addedAt |-> t,
                    lastAccessed |-> t,
                    accessCount |-> 1,
                    memoryUsage |-> memoryUsage,
                    isCollaborative |-> isCollaborative,
                    modificationCount |-> 0]
        strokes2 == MapSet(m.strokes, managed)
    IN  [m EXCEPT !.strokes = strokes2,
                  !.count = Len(strokes2),
                  !.mem = m.mem + memoryUsage]

\* updateStroke, were the running total left as it is for a resident stroke
updateStrokeKeepingTotal(m, stroke, cfg, t) ==
    IF ~MapHas(m.strokes, stroke.id)
    THEN addStroke(m, stroke, FALSE, cfg, t)
    ELSE LET ms == MapGet(m.strokes, stroke.id)
             ms2 == [ms EXCEPT !.stroke = stroke,
                               !.memoryUsage = estimateStrokeMemoryUsage(stroke),
                               !.lastAccessed = t,
                               !.modificationCount = ms.modificationCount + 1]
         IN  [m EXCEPT !.strokes = MapSet(m.strokes, ms2)]

updateStroke(m, stroke, cfg, t) ==
    IF ~MapHas(m.strokes, stroke.id)
    THEN addStroke(m, stroke, FALSE, cfg, t)
    ELSE LET ms == MapGet(m.strokes, stroke.id)
             newMemoryUsage == estimateStrokeMemoryUsage(stroke)
             ms2 == [ms EXCEPT !.stroke = stroke,
                               !.memoryUsage = newMemoryUsage,
                               !.lastAccessed = t,
                               !.modificationCount = ms.modificationCount + 1]
         IN  [m EXCEPT !.strokes = MapSet(m.strokes, ms2),
                       !.mem = m.mem + (newMemoryUsage - ms.memoryUsage)]

removeStroke(m, strokeId, backup, cfg) ==
    IF ~MapHas(m.strokes, strokeId) THEN m
    ELSE LET managed == MapGet(m.strokes, strokeId)
             strokes2 == MapDelete(m.strokes, strokeId)
         IN  [strokes |-> strokes2,
              backup |-> IF backup /\ cfg.enableBackup
                         THEN [x \in DOMAIN m.backup \cup {strokeId} |->
                                  IF x = strokeId THEN managed.stroke ELSE m.backup[x]]
                         ELSE m.backup,
              count |-> Len(strokes2),
              mem |-> m.mem - managed.memoryUsage]

\* null, where a DrawingStroke is expected
HistNull == [id |-> 0, points |-> 0, size |-> 0, timestamp |-> 0]

\* getStroke that returns the backed-up stroke without adding it again
getStrokeWithoutRestore(m, strokeId, cfg, t) ==
    IF MapHas(m.strokes, strokeId)
    THEN LET ms == MapGet(m.strokes, strokeId)
             ms2 == [ms EXCEPT !.lastAccessed = t, !.accessCount = ms.accessCount + 1]
         IN  [m |-> [m EXCEPT !.strokes = MapSet(m.strokes, ms2)],
              ret |-> ms.stroke, added |-> FALSE]
    ELSE IF strokeId \in DOMAIN m.backup
    THEN [m |-> m, ret |-> m.backup[strokeId], added |-> FALSE]
    ELSE [m |-> m, ret |-> HistNull, added |-> FALSE]

\* getStroke: the state after the call, what it returns, and whether it went
\* through addStroke (and so through checkCleanupTriggers)
getStroke(m, strokeId, cfg, t) ==
    IF MapHas(m.strokes, strokeId)
    THEN LET ms == MapGet(m.strokes, strokeId)
             ms2 == [ms EXCEPT !.lastAccessed = t, !.accessCount = ms.accessCount + 1]
         IN  [m |-> [m EXCEPT !.strokes = MapSet(m.strokes, ms2)],
              ret |-> ms.stroke, added |-> FALSE]
    ELSE IF strokeId \in DOMAIN m.backup
    THEN [m |-> addStroke(m, m.backup[strokeId], FALSE, cfg, t),
          ret |-> m.backup[strokeId], added |-> TRUE]
    ELSE [m |-> m, ret |-> HistNull, added |-> FALSE]

\* the insertion step of a sort with (a, b) => b.importance - a.importance
InsertSortedDescending(sorted, e) ==
    LET k == Cardinality({i \in 1..Len(sorted) : sorted[i].importance >= e.importance})
    IN  SubSeq(sorted, 1, k) \o <<e>> \o SubSeq(sorted, k + 1, Len(sorted))

\* Array.prototype.sort with (a, b) => a.importance - b.importance: stable, ascending
InsertSorted(sorted, e) ==
    LET k == Cardinality({i \in 1..Len(sorted) : sorted[i].importance <= e.importance})
    IN  SubSeq(sorted, 1, k) \o <<e>> \o SubSeq(sorted, k + 1, Len(sorted))

RECURSIVE SortByImportance(_)
SortByImportance(s) ==
    IF s = <<>> THEN <<>>
    ELSE InsertSorted(SortByImportance(SubSeq(s, 1, Len(s) - 1)), s[Len(s)])

\* cleanup(), first loop: "Cleanup by age", over strokesArray from index i
RECURSIVE AgePass(_, _, _, _, _)
AgePass(m, arr, i, cfg, t) ==
    IF i > Len(arr) THEN m
    ELSE IF Len(m.strokes) <= cfg.minRetainedStrokes THEN m
    ELSE IF arr[i].ms.addedAt < t - cfg.maxStrokeAge
         THEN AgePass(removeStroke(m, arr[i].ms.stroke.id, TRUE, cfg), arr, i + 1, cfg, t)
         ELSE AgePass(m, arr, i + 1, cfg, t)

\* Mutant of MemoryPass: every sweep gives up its least important stroke,
\* whatever the memory total
MemoryPassOnePerCall(m, arr, cfg) ==
    IF Len(m.strokes) > cfg.minRetainedStrokes /\ Len(arr) > 0
    THEN [m |-> IF MapHas(m.strokes, Head(arr).ms.stroke.id)
                THEN removeStroke(m, Head(arr).ms.stroke.id, TRUE, cfg)
                ELSE m,
          arr |-> Tail(arr)]
    ELSE [m |-> m, arr |-> arr]

\* cleanup(), second loop: "Cleanup by memory pressure"; yields the state and
\* what is left of strokesArray
RECURSIVE MemoryPass(_, _, _)
MemoryPass(m, arr, cfg) ==
    IF m.mem > cfg.maxMemoryBytes
       /\ Len(m.strokes) > cfg.minRetainedStrokes
       /\ Len(arr) > 0
    THEN MemoryPass(IF MapHas(m.strokes, Head(arr).ms.stroke.id)
                    THEN removeStroke(m, Head(arr).ms.stroke.id, TRUE, cfg)
                    ELSE m,
                    Tail(arr), cfg)
    ELSE [m |-> m, arr |-> arr]

\* Mutant of SizePass: the loop stops one stroke above the cap (> becomes >=
\* on the wrong side)
RECURSIVE SizePassStopsEarly(_, _, _)
SizePassStopsEarly(m, arr, cfg) ==
    IF Len(m.strokes) > cfg.maxHistorySize + 1 /\ Len(arr) > 0
    THEN SizePassStopsEarly(IF MapHas(m.strokes, Head(arr).ms.stroke.id)
                            THEN removeStroke(m, Head(arr).ms.stroke.id, TRUE, cfg)
                            ELSE m,
                            Tail(arr), cfg)
    ELSE m

\* cleanup(), third loop: "Cleanup by size limit"
RECURSIVE SizePass(_, _, _)
SizePass(m, arr, cfg) ==
    IF Len(m.strokes) > cfg.maxHistorySize /\ Len(arr) > 0
    THEN SizePass(IF MapHas(m.strokes, Head(arr).ms.stroke.id)
                  THEN removeStroke(m, Head(arr).ms.stroke.id, TRUE, cfg)
                  ELSE m,
                  Tail(arr), cfg)
    ELSE m

\* cleanup(): the state after the sweep and the resident count after each pass
cleanup(m, cfg, t) ==
    IF Len(m.strokes) <= cfg.minRetainedStrokes
    THEN [m |-> m, ran |-> FALSE,
          afterAge |-> Len(m.strokes), afterMem |-> Len(m.strokes),
          afterSize |-> Len(m.strokes)]
    ELSE LET rescored == [i \in 1..Len(m.strokes) |->
                             updateImportanceScore(m.strokes[i], cfg, t)]
             strokesArray == SortByImportance(rescored)
             m1 == AgePass(m, strokesArray, 1, cfg, t)
             r2 == MemoryPass(m1, strokesArray, cfg)
             m3 == SizePass(r2.m, r2.arr, cfg)
         IN  [m |-> m3, ran |-> TRUE,
              afterAge |-> Len(m1.strokes), afterMem |-> Len(r2.m.strokes),
              afterSize |-> Len(m3.strokes)]

(***************************************************************************)
(* StrokeHistoryManager: the calls                                         *)
(***************************************************************************)
EmptyMap == [x \in {} |-> 0]

\* hLast: the call and, for a sweep, the resident count before it and after
\* each of its passes
HistCall(op) ==
    [op |-> op, before |-> 0, afterAge |-> 0, afterMem |-> 0, afterSize |-> 0]

\* hLast for addStroke, updateStroke and getStroke: the id and what is returned
HistCallOn(op, id, ret) == [op |-> op, id |-> id, ret |-> ret]

HistSweep(op, before, r) ==
    [op |-> op, before |-> before, afterAge |-> r.afterAge,
     afterMem |-> r.afterMem, afterSize |-> r.afterSize]

\* hLast for the sweep that the callback queued by checkCleanupTriggers runs
HistQueuedSweep(before, r) ==
    [op |-> "cleanup", queued |-> TRUE, before |-> before, afterAge |-> r.afterAge,
     afterMem |-> r.afterMem, afterSize |-> r.afterSize]

SetHist(m) ==
    /\ hStrokes' = m.strokes
    /\ hBackup' = m.backup
    /\ hCount' = m.count
    /\ hMem' = m.mem

\* the running memory total is kept within what NumIds strokes can take
MemCap == NumIds * estimateStrokeMemoryUsage([points |-> 4])

\* checkCleanupTriggers: setTimeout(() => this.cleanup(), 0)
Schedule(m) ==
    /\ m.mem <= MemCap
    /\ IF checkCleanupTriggers(m, hCfg)
       THEN /\ hPending < MaxPending
            /\ hPending' = hPending + 1
       ELSE hPending' = hPending

\* the manager after construction with the given configuration
HistNew(cfg) ==
    /\ hCfg = cfg
    /\ hStrokes = <<>>
    /\ hBackup = EmptyMap
    /\ hCount = 0
    /\ hMem = 0
    /\ hPending = 0
    /\ hLast = HistCall("new")

AddStroke ==
    \E stroke \in HistStrokeInputs :
        LET isCollaborative == stroke.points > 0
            m == addStroke(HistState, stroke, isCollaborative, hCfg, now)
        IN  /\ SetHist(m)
            /\ Schedule(m)
            /\ hLast' = HistCallOn("add", stroke.id, HistNull)
            /\ UNCHANGED <<notHist, now, hCfg>>

GetStroke ==
    \E strokeId \in Ids :
        LET r == getStroke(HistState, strokeId, hCfg, now)
        IN  /\ MapHas(hStrokes, strokeId)
                   => MapGet(hStrokes, strokeId).accessCount < MaxAccess
            /\ SetHist(r.m)
            /\ IF r.added THEN Schedule(r.m) ELSE hPending' = hPending
            /\ hLast' = HistCallOn("get", strokeId, r.ret)
            /\ UNCHANGED <<notHist, now, hCfg>>

UpdateStroke ==
    \E stroke \in HistStrokeInputs :
        LET m == updateStroke(HistState, stroke, hCfg, now)
        IN  /\ MapHas(hStrokes, stroke.id)
                   => MapGet(hStrokes, stroke.id).modificationCount < MaxMod
            /\ SetHist(m)
            /\ Schedule(m)
            /\ hLast' = HistCallOn("update", stroke.id, HistNull)
            /\ UNCHANGED <<notHist, now, hCfg>>

RemoveStroke ==
    \E strokeId \in Ids, backup \in BOOLEAN :
        /\ SetHist(removeStroke(HistState, strokeId, backup, hCfg))
        /\ hLast' = HistCall("call")
        /\ UNCHANGED <<notHist, now, hCfg, hPending>>

\* cleanup() called by the owner
Cleanup ==
    LET r == cleanup(HistState, hCfg, now)
    IN  /\ SetHist(r.m)
        /\ hLast' = HistSweep("cleanup", Len(hStrokes), r)
        /\ UNCHANGED <<notHist, now, hCfg, hPending>>

\* the setInterval callback of startCleanupTimer
CleanupTimer ==
    /\ LET r == cleanup(HistState, hCfg, now)
       IN  /\ SetHist(r.m)
           /\ hLast' = HistSweep("cleanup", Len(hStrokes), r)
    /\ UNCHANGED <<notHist, now, hCfg, hPending>>

\* the setTimeout callback of checkCleanupTriggers
DeferredCleanup ==
    /\ hPending > 0
    /\ hPending' = hPending - 1
    /\ LET r == cleanup(HistState, hCfg, now)
       IN  /\ SetHist(r.m)
           /\ hLast' = HistQueuedSweep(Len(hStrokes), r)
    /\ UNCHANGED <<notHist, now, hCfg>>

\* cleanupWithParams({maxAge?, maxCount?}): -1 stands for an option left undefined
CleanupWithParams ==
    \E maxAge \in {-1, 0}, maxCount \in {-1, 0} :
        LET cfg1 == [hCfg EXCEPT
                        !.maxStrokeAge = IF maxAge # -1 THEN maxAge ELSE @,
                        !.maxHistorySize = IF maxCount # -1 THEN maxCount ELSE @]
            r == cleanup(HistState, cfg1, now)
        IN  /\ SetHist(r.m)
            /\ hLast' = HistSweep("cleanupWithParams", Len(hStrokes), r)
            /\ UNCHANGED <<notHist, now, hCfg, hPending>>

ClearHist ==
    /\ hStrokes' = <<>>
    /\ hBackup' = EmptyMap
    /\ hCount' = 0
    /\ hMem' = 0
    /\ hLast' = HistCall("call")
    /\ UNCHANGED <<notHist, now, hCfg, hPending>>

\* time passes
Tick ==
    /\ now < MaxTime
    /\ now' = now + 1
    /\ UNCHANGED <<histVars, cacheVars, cullVars, poolVars>>

NextHist ==
    \/ AddStroke
    \/ GetStroke
    \/ UpdateStroke
    \/ RemoveStroke
    \/ Cleanup
    \/ CleanupTimer
    \/ DeferredCleanup
    \/ CleanupWithParams
    \/ ClearHist
    \/ Tick

(***************************************************************************)
(* StrokeCache                                                             *)
(*                                                                         *)
(* A stroke handed to the cache is [id, points, size, timestamp]; points   *)
(* is the flat coordinate array, the colour is "#000000".  Strings are     *)
(* sequences of character codes.                                           *)
(***************************************************************************)

\* Number.prototype.toString for an integer
RECURSIVE Digits(_)
Digits(n) == IF n < 10 THEN <<48 + n>> ELSE Digits(n \div 10) \o <<48 + (n % 10)>>

NumStr(n) == IF n < 0 THEN <<45>> \o Digits(0 - n) ELSE Digits(n)

\* Array.prototype.join(',')
RECURSIVE JoinComma(_)
JoinComma(s) ==
    IF s = <<>> THEN <<>>
    ELSE IF Len(s) = 1 THEN NumStr(s[1])
    ELSE NumStr(s[1]) \o <<44>> \o JoinComma(Tail(s))

ColorChars == <<35, 48, 48, 48, 48, 48, 48>>

\* `${points.join(',')}|${color}|${size}|${timestamp}`
StrokeHashData(stroke) ==
    JoinComma(stroke.points) \o <<124>> \o ColorChars \o <<124>>
        \o NumStr(stroke.size) \o <<124>> \o NumStr(stroke.timestamp)

\* One round of simpleHash, hash = ((hash << 5) - hash) + char wrapped to 32 bits;
\* the 32-bit value is kept as two 16-bit halves <<high, low>>
HashStep(h, char) ==
    LET low == 31 * h[2] + char
    IN  <<(31 * h[1] + (low \div 65536)) % 65536, low % 65536>>

RECURSIVE HashFrom(_, _)
HashFrom(h, str) ==
    IF str = <<>> THEN h ELSE HashFrom(HashStep(h, Head(str)), Tail(str))

simpleHash(str) == HashFrom(<<0, 0>>, str)

calculateStrokeHash(stroke) == simpleHash(StrokeHashData(stroke))

\* tessellateStroke, the loop over the segments starting at points[i+1], points[i+2]
\* (i is the 0-based index of the code): g holds the number of values pushed to
\* tessellatedPoints and normals and the running minX, maxX, minY, maxY,
\* which are kept doubled so that halfWidth = size / 2 stays an integer.
RECURSIVE TessellateFrom(_, _, _)
TessellateFrom(stroke, i, g) ==
    IF ~(i < Len(stroke.points) - 2) THEN g
    ELSE LET x1 == stroke.points[i + 1]
             y1 == stroke.points[i + 2]
             x2 == stroke.points[i + 3]
             y2 == stroke.points[i + 4]
         IN  IF x2 - x1 # 0 \/ y2 - y1 # 0
             THEN TessellateFrom(stroke, i + 2,
                      [tessellatedPoints |-> g.tessellatedPoints + 4,
                       normals |-> g.normals + 4,
                       minX |-> Min(g.minX, 2 * x1 - stroke.size),
                       maxX |-> Max(g.maxX, 2 * x1 + stroke.size),
                       minY |-> Min(g.minY, 2 * y1 - stroke.size),
                       maxY |-> Max(g.maxY, 2 * y1 + stroke.size)])
             ELSE TessellateFrom(stroke, i + 2, g)

\* the index loop: for (i = 0; i < vertexCount - 2; i += 2) pushes 6 indices
IndexCount(vertexCount) ==
    6 * Cardinality({i \in 0..vertexCount : i % 2 = 0 /\ i < vertexCount - 2})

\* tessellateStroke that gives a stroke of fewer than two points the box of a
\* dot of the stroke's size
tessellateShortAsDot(stroke) ==
    IF Len(stroke.points) < 4
    THEN [tessellatedPoints |-> 0, normals |-> 0, indices |-> 0,
          bounds |-> [x |-> 0, y |-> 0, width |-> 2 * stroke.size,
                      height |-> 2 * stroke.size]]
    ELSE LET g == TessellateFrom(stroke, 0,
                      [tessellatedPoints |-> 0, normals |-> 0,
                       minX |-> 2 * stroke.points[1], maxX |-> 2 * stroke.points[1],
                       minY |-> 2 * stroke.points[2], maxY |-> 2 * stroke.points[2]])
         IN  [tessellatedPoints |-> g.tessellatedPoints,
              normals |-> g.normals,
              indices |-> IndexCount(g.tessellatedPoints \div 2),
              bounds |-> [x |-> g.minX, y |-> g.minY,
                          width |-> g.maxX - g.minX, height |-> g.maxY - g.minY]]

\* tessellateStroke: the lengths of the three buffers and the bounds (doubled)
tessellateStroke(stroke) ==
    IF Len(stroke.points) < 4
    THEN [tessellatedPoints |-> 0, normals |-> 0, indices |-> 0,
          bounds |-> [x |-> 0, y |-> 0, width |-> 0, height |-> 0]]
    ELSE LET g == TessellateFrom(stroke, 0,
                      [tessellatedPoints |-> 0, normals |-> 0,
                       minX |-> 2 * stroke.points[1], maxX |-> 2 * stroke.points[1],
                       minY |-> 2 * stroke.points[2], maxY |-> 2 * stroke.points[2]])
         IN  [tessellatedPoints |-> g.tessellatedPoints,
              normals |-> g.normals,
              indices |-> IndexCount(g.tessellatedPoints \div 2),
              bounds |-> [x |-> g.minX, y |-> g.minY,
                          width |-> g.maxX - g.minX, height |-> g.maxY - g.minY]]

\* Float32Array: 4 bytes per value, Uint16Array: 2 bytes per value
estimateMemoryUsage(geometry) ==
    4 * geometry.tessellatedPoints + 4 * geometry.normals + 2 * geometry.indices + 100

(***************************************************************************)
(* The cache: c = [ent, map, head, tail, stats].  A CacheEntry is an       *)
(* object; ent maps the identities (positive integers) of the entries that *)
(* are still referenced to their fields, prev and next hold identities     *)
(* and 0 is null.                                                          *)
(***************************************************************************)
CacheConfig(maxCacheSize, maxMemoryBytes, maxAge) ==
    [maxCacheSize |-> maxCacheSize,
     maxMemoryBytes |-> maxMemoryBytes,   \* maxMemoryUsage * 1024 * 1024
     maxAge |-> maxAge]

CacheState == [ent |-> cEnt, map |-> cMap, head |-> cHead, tail |-> cTail,
               stats |-> cStats]

\* processStroke
processStroke(stroke, t) ==
    LET geometry == tessellateStroke(stroke)
    IN  [id |-> stroke.id,
         stroke |-> stroke,
         geometry |-> geometry,
         createdAt |-> t,
         lastAccessed |-> t,
         accessCount |-> 1,
         memoryUsage |-> estimateMemoryUsage(geometry),
         dataHash |-> calculateStrokeHash(stroke)]

isValidCache(cached, stroke, cfg, t) ==
    LET currentHash == calculateStrokeHash(stroke)
        age == t - cached.createdAt
    IN  cached.dataHash = currentHash /\ age < cfg.maxAge

addToHead(c, h) ==
    LET ent1 == [c.ent EXCEPT ![h].prev = 0, ![h].next = c.head]
    IN  IF c.head # 0
        THEN [c EXCEPT !.ent = [ent1 EXCEPT ![c.head].prev = h], !.head = h]
        ELSE [c EXCEPT !.ent = ent1, !.tail = h, !.head = h]

removeFromList(c, h) ==
    LET e == c.ent[h]
        c1 == IF e.prev # 0
              THEN [c EXCEPT !.ent[e.prev].next = e.next]
              ELSE [c EXCEPT !.head = e.next]
    IN  IF e.next # 0
        THEN [c1 EXCEPT !.ent[e.next].prev = e.prev]
        ELSE [c1 EXCEPT !.tail = e.prev]

moveToHead(c, h) == addToHead(removeFromList(c, h), h)

\* removeEntry; the entry itself is unreferenced afterwards and leaves ent
removeEntry(c, h) ==
    LET e == c.ent[h]
        c1 == removeFromList(c, h)
        map1 == [k \in DOMAIN c1.map \ {e.id} |-> c1.map[k]]
    IN  [c1 EXCEPT
            !.map = map1,
            !.ent = [k \in DOMAIN c1.ent \ {h} |-> c1.ent[k]],
            !.stats.memoryUsage = @ - e.memoryUsage,
            !.stats.cacheSize = Cardinality(DOMAIN map1)]

\* get, were a miss to make room by dropping the least recently used entry
getDroppingTailOnMiss(c, strokeId, t) ==
    LET c0 == [c EXCEPT !.stats.totalRequests = @ + 1]
    IN  IF strokeId \notin DOMAIN c.map
        THEN [c |-> IF c0.tail # 0 THEN removeEntry(c0, c0.tail) ELSE c0, ret |-> 0]
        ELSE LET h == c.map[strokeId]
                 c1 == moveToHead(c0, h)
             IN  [c |-> [c1 EXCEPT !.ent[h].lastAccessed = t,
                                   !.ent[h].accessCount = @ + 1,
                                   !.stats.cacheHits = @ + 1],
                  ret |-> h]

\* get: ret is the entry whose segment is returned, 0 for null
get(c, strokeId, t) ==
    LET c0 == [c EXCEPT !.stats.totalRequests = @ + 1]
    IN  IF strokeId \notin DOMAIN c.map
        THEN [c |-> c0, ret |-> 0]
        ELSE LET h == c.map[strokeId]
                 c1 == moveToHead(c0, h)
             IN  [c |-> [c1 EXCEPT !.ent[h].lastAccessed = t,
                                   !.ent[h].accessCount = @ + 1,
                                   !.stats.cacheHits = @ + 1],
                  ret |-> h]

\* the entry of the map that is nearest to the tail of the LRU list, from h on
\* (0 when there is none): the least recently used entry present in the map
RECURSIVE LruInMapFrom(_, _)
LruInMapFrom(c, h) ==
    IF h = 0 THEN 0
    ELSE IF c.ent[h].id \in DOMAIN c.map /\ c.map[c.ent[h].id] = h THEN h
    ELSE LruInMapFrom(c, c.ent[h].prev)

\* what one eviction, removeEntry(this.tail), is about to do: the entry it
\* unlinks, the entry cache.delete(entry.segment.id) takes out of the map
\* (0 when the id is not a key) and the least recently used entry of the map
Eviction(c) ==
    LET id == c.ent[c.tail].id
    IN  [entry |-> c.tail,
         deleted |-> IF id \in DOMAIN c.map THEN c.map[id] ELSE 0,
         lru |-> LruInMapFrom(c, c.tail)]

EvictHead(c) == [removeEntry(c, c.head) EXCEPT !.stats.evictions = @ + 1]

EvictTail(c) == [removeEntry(c, c.tail) EXCEPT !.stats.evictions = @ + 1]

\* enforceMemoryLimits, first loop
RECURSIVE EvictByMemory(_, _, _)
EvictByMemory(c, cfg, log) ==
    IF c.stats.memoryUsage > cfg.maxMemoryBytes /\ c.tail # 0
    THEN EvictByMemory(EvictTail(c), cfg, Append(log, Eviction(c)))
    ELSE [c |-> c, log |-> log]

\* enforceMemoryLimits, second loop
RECURSIVE EvictBySize(_, _, _)
EvictBySize(c, cfg, log) ==
    IF Cardinality(DOMAIN c.map) > cfg.maxCacheSize /\ c.tail # 0
    THEN EvictBySize(EvictTail(c), cfg, Append(log, Eviction(c)))
    ELSE [c |-> c, log |-> log]

enforceNoLimits(c, cfg) == [c |-> c, log |-> <<>>]

enforceMemoryLimits(c, cfg) ==
    LET r == EvictByMemory(c, cfg, <<>>)
    IN  EvictBySize(r.c, cfg, r.log)

\* a fresh object identity
NewEntry(c) == CHOOSE h \in 1..(Cardinality(DOMAIN c.ent) + 1) : h \notin DOMAIN c.ent

\* create: ret is the entry whose segment is returned, log the evictions made
create(c, stroke, cfg, t) ==
    LET g == get(c, stroke.id, t)
    IN  IF g.ret # 0 /\ isValidCache(g.c.ent[g.ret], stroke, cfg, t)
        THEN [c |-> g.c, ret |-> g.ret, log |-> <<>>]
        ELSE LET segment == processStroke(stroke, t)
                 h == NewEntry(g.c)
                 entry == [k \in DOMAIN segment \cup {"prev", "next"} |->
                              IF k \in DOMAIN segment THEN segment[k] ELSE 0]
                 c1 == [g.c EXCEPT
                           !.ent = [k \in DOMAIN g.c.ent \cup {h} |->
                                       IF k = h THEN entry ELSE g.c.ent[k]],
                           !.map = [k \in DOMAIN g.c.map \cup {stroke.id} |->
                                       IF k = stroke.id THEN h ELSE g.c.map[k]]]
                 c2 == addToHead(c1, h)
                 c3 == [c2 EXCEPT
                           !.stats.memoryUsage = @ + segment.memoryUsage,
                           !.stats.cacheSize = Cardinality(DOMAIN c2.map)]
                 r == enforceMemoryLimits(c3, cfg)
             IN  [c |-> r.c, ret |-> h, log |-> r.log]

\* invalidate, were a call for an id that is not cached counted too
invalidateCountingAbsent(c, strokeId) ==
    IF strokeId \notin DOMAIN c.map THEN [c EXCEPT !.stats.invalidations = @ + 1]
    ELSE [removeEntry(c, c.map[strokeId]) EXCEPT !.stats.invalidations = @ + 1]

invalidate(c, strokeId) ==
    IF strokeId \notin DOMAIN c.map THEN c
    ELSE [removeEntry(c, c.map[strokeId]) EXCEPT !.stats.invalidations = @ + 1]

\* invalidateMany: invalidate(strokeId) for each id of the array, in its order
RECURSIVE invalidateMany(_, _)
invalidateMany(c, strokeIds) ==
    IF strokeIds = <<>> THEN c
    ELSE invalidateMany(invalidate(c, Head(strokeIds)), Tail(strokeIds))

\* performCleanup, the loop over expiredEntries (entries of pairwise distinct ids)
RECURSIVE RemoveEntries(_, _)
RemoveEntries(c, entries) ==
    IF entries = {} THEN c
    ELSE LET h == CHOOSE x \in entries : \A y \in entries : x <= y
         IN  RemoveEntries(removeEntry(c, h), entries \ {h})

performCleanup(c, cfg, t) ==
    LET expiredEntries == {h \in {c.map[k] : k \in DOMAIN c.map} :
                              t - c.ent[h].createdAt > cfg.maxAge}
    IN  RemoveEntries(c, expiredEntries)

clear(c) ==
    [c EXCEPT !.ent = EmptyMap, !.map = EmptyMap, !.head = 0, !.tail = 0,
              !.stats.memoryUsage = 0, !.stats.cacheSize = 0]

(***************************************************************************)
(* Calls on the cache.                                                     *)
(***************************************************************************)
\* The strokes handed to the cache: a two-point stroke (132 bytes of geometry)
\* under the odd ids, a three-point stroke (176 bytes) under the even ids, and
\* the edit of stroke 1 to three points.
CacheStrokes ==
    {[id |-> i, points |-> IF i % 2 = 1 THEN <<0, 0, 4, 0>> ELSE <<0, 0, 4, 0, 4, 4>>,
      size |-> 5, timestamp |-> 0] : i \in 1..NumCacheIds}
    \cup {[id |-> 1, points |-> <<0, 0, 4, 0, 4, 4>>, size |-> 5, timestamp |-> 1]}

\* Configurations: a count limit alone, a count limit with entries that are
\* never fresh (maxAge 0), and a memory limit that holds two small entries
\* but not a small and a large one, and a cache constructed with
\* {maxCacheSize: 0}.
CacheConfigs ==
    {CacheConfig(2, 100000, 100),
     CacheConfig(1, 100000, 0),
     CacheConfig(3, 300, 100),
     CacheConfig(0, 100000, 100)}

\* Strokes of fewer than two points: no point at all, and a single point.
ShortStrokes ==
    {[id |-> 2, points |-> <<>>, size |-> 5, timestamp |-> 0],
     [id |-> 3, points |-> <<7, 7>>, size |-> 5, timestamp |-> 0]}

NoStroke == [id |-> 0, points |-> <<>>, size |-> 0, timestamp |-> 0]

CacheCall(op, stroke, ret, log) ==
    [op |-> op, stroke |-> stroke, ret |-> ret, log |-> log]

SetCache(c) ==
    /\ cEnt' = c.ent
    /\ cMap' = c.map
    /\ cHead' = c.head
    /\ cTail' = c.tail
    /\ cStats' = c.stats

NoRun == [only |-> FALSE, strokes |-> <<>>]

\* the cache after construction with the given configuration
CacheNew(cfg) ==
    /\ cCfg = cfg
    /\ cEnt = EmptyMap
    /\ cMap = EmptyMap
    /\ cHead = 0
    /\ cTail = 0
    /\ cStats = [cacheSize |-> 0, memoryUsage |-> 0, totalRequests |-> 0,
                 cacheHits |-> 0, evictions |-> 0, invalidations |-> 0]
    /\ cLast = CacheCall("new", NoStroke, 0, <<>>)
    /\ cRun = [only |-> TRUE, strokes |-> <<>>]

CacheCreateOf(stroke) ==
    LET r == create(CacheState, stroke, cCfg, now)
    IN  /\ cStats.totalRequests < MaxRequests
        /\ SetCache(r.c)
        /\ cLast' = CacheCall("create", stroke, r.ret, r.log)
        /\ cRun' = IF cRun.only /\ \A i \in 1..Len(cRun.strokes) :
                                      cRun.strokes[i].id # stroke.id
                   THEN [cRun EXCEPT !.strokes = Append(@, stroke)]
                   ELSE NoRun
        /\ UNCHANGED <<notCache, now, cCfg>>

CacheCreate == \E stroke \in CacheStrokes : CacheCreateOf(stroke)

CacheCreateShort == \E stroke \in ShortStrokes : CacheCreateOf(stroke)

CacheGet ==
    \E strokeId \in 1..NumCacheIds :
        LET r == get(CacheState, strokeId, now)
        IN  /\ cStats.totalRequests < MaxRequests
            /\ SetCache(r.c)
            /\ cLast' = CacheCall("get", [NoStroke EXCEPT !.id = strokeId], r.ret, <<>>)
            /\ cRun' = NoRun
            /\ UNCHANGED <<notCache, now, cCfg>>

CacheInvalidate ==
    \E strokeId \in 1..NumCacheIds :
        /\ cStats.invalidations < MaxInvalidations
        /\ SetCache(invalidate(CacheState, strokeId))
        /\ cLast' = CacheCall("invalidate", [NoStroke EXCEPT !.id = strokeId], 0, <<>>)
        /\ cRun' = NoRun
        /\ UNCHANGED <<notCache, now, cCfg>>

\* the arrays handed to invalidateMany: two ids, or the same id twice
InvalidateLists == {<<1, 2>>, <<2, 2>>, <<3, 1>>}

CacheInvalidateManyOf(strokeIds) ==
    /\ cStats.invalidations < MaxInvalidations
    /\ SetCache(invalidateMany(CacheState, strokeIds))
    /\ cLast' = CacheCall("invalidateMany", NoStroke, 0, <<>>)
    /\ cRun' = NoRun
    /\ UNCHANGED <<notCache, now, cCfg>>

CacheInvalidateMany == \E strokeIds \in InvalidateLists : CacheInvalidateManyOf(strokeIds)

\* the setInterval callback of startCleanupTimer
CacheCleanupTimer ==
    /\ SetCache(performCleanup(CacheState, cCfg, now))
    /\ cLast' = CacheCall("performCleanup", NoStroke, 0, <<>>)
    /\ cRun' = NoRun
    /\ UNCHANGED <<notCache, now, cCfg>>

CacheClear ==
    /\ SetCache(clear(CacheState))
    /\ cLast' = CacheCall("clear", NoStroke, 0, <<>>)
    /\ cRun' = NoRun
    /\ UNCHANGED <<notCache, now, cCfg>>

NextCache ==
    \/ CacheCreate
    \/ CacheGet
    \/ CacheInvalidate
    \/ CacheInvalidateMany
    \/ CacheCleanupTimer
    \/ CacheClear
    \/ Tick

(***************************************************************************)
(* ViewportCuller                                                          *)
(*                                                                         *)
(* Coordinates are kept in units of 1/Scale pixel, Scale a power of two    *)
(* large enough that stroke.size / 2 and every halving of a cell down to   *)
(* the deepest level are exact.  A stroke is [id, points, size] with       *)
(* points and size in pixels.  A SpatialCell is [bounds, strokes,          *)
(* children, depth], children = <<>> standing for no children.             *)
(***************************************************************************)
RECURSIVE Pow2(_)
Pow2(n) == IF n = 0 THEN 1 ELSE 2 * Pow2(n - 1)

Scale == Pow2(MaxSubdivisions + 1)

CullerConfig(cullingMargin, maxSubdivisions, minStrokesPerCell, enableLOD, lodDistanceThreshold) ==
    [cullingMargin |-> cullingMargin * Scale,
     maxSubdivisions |-> maxSubdivisions,
     minStrokesPerCell |-> minStrokesPerCell,
     enableLOD |-> enableLOD,
     lodDistanceThreshold |-> lodDistanceThreshold * Scale]

\* calculateStrokeBounds, the loop over the points from 0-based index i on
RECURSIVE BoundsFrom(_, _, _)
BoundsFrom(points, i, b) ==
    IF ~(i < Len(points)) THEN b
    ELSE LET x == points[i + 1]
             y == points[i + 2]
         IN  BoundsFrom(points, i + 2,
                 [minX |-> IF x < b.minX THEN x ELSE b.minX,
                  maxX |-> IF x > b.maxX THEN x ELSE b.maxX,
                  minY |-> IF y < b.minY THEN y ELSE b.minY,
                  maxY |-> IF y > b.maxY THEN y ELSE b.maxY])

calculateStrokeBounds(stroke) ==
    IF Len(stroke.points) < 2
    THEN [x |-> 0, y |-> 0, width |-> 0, height |-> 0]
    ELSE LET b == BoundsFrom(stroke.points, 2,
                      [minX |-> stroke.points[1], maxX |-> stroke.points[1],
                       minY |-> stroke.points[2], maxY |-> stroke.points[2]])
             halfWidth == (stroke.size * Scale) \div 2
         IN  [x |-> b.minX * Scale - halfWidth,
              y |-> b.minY * Scale - halfWidth,
              width |-> (b.maxX - b.minX) * Scale + stroke.size * Scale,
              height |-> (b.maxY - b.minY) * Scale + stroke.size * Scale]

\* calculateOverallBounds, the loop from index i on
RECURSIVE OverallFrom(_, _, _)
OverallFrom(strokesWithBounds, i, b) ==
    IF i > Len(strokesWithBounds) THEN b
    ELSE LET bounds == strokesWithBounds[i].bounds
         IN  OverallFrom(strokesWithBounds, i + 1,
                 [minX |-> Min(b.minX, bounds.x),
                  minY |-> Min(b.minY, bounds.y),
                  maxX |-> Max(b.maxX, bounds.x + bounds.width),
                  maxY |-> Max(b.maxY, bounds.y + bounds.height)])

calculateOverallBounds(strokesWithBounds) ==
    IF Len(strokesWithBounds) = 0
    THEN [x |-> 0, y |-> 0, width |-> 0, height |-> 0]
    ELSE LET first == strokesWithBounds[1].bounds
             b == OverallFrom(strokesWithBounds, 2,
                      [minX |-> first.x, minY |-> first.y,
                       maxX |-> first.x + first.width,
                       maxY |-> first.y + first.height])
         IN  [x |-> b.minX, y |-> b.minY,
              width |-> b.maxX - b.minX, height |-> b.maxY - b.minY]

boundsIntersect(bounds1, bounds2) ==
    ~(\/ bounds1.x + bounds1.width < bounds2.x
      \/ bounds2.x + bounds2.width < bounds1.x
      \/ bounds1.y + bounds1.height < bounds2.y
      \/ bounds2.y + bounds2.height < bounds1.y)

\* a stroke goes only to the child that holds the top-left corner of its bounds
StrokesCorneredIn(strokes, childBounds) ==
    SelectSeq(strokes, LAMBDA swb :
        boundsIntersect([x |-> swb.bounds.x, y |-> swb.bounds.y,
                         width |-> 0, height |-> 0], childBounds))

\* subdivideCell, "distribute strokes to child cells": what one child receives
StrokesOfChild(strokes, childBounds) ==
    SelectSeq(strokes, LAMBDA swb : boundsIntersect(swb.bounds, childBounds))

RECURSIVE subdivideCell(_, _)
subdivideCell(cell, cfg) ==
    IF cell.depth >= cfg.maxSubdivisions
           \/ Len(cell.strokes) <= cfg.minStrokesPerCell
    THEN cell
    ELSE LET halfWidth == cell.bounds.width \div 2
             halfHeight == cell.bounds.height \div 2
             Child(x, y) ==
                 LET bounds == [x |-> x, y |-> y,
                                width |-> halfWidth, height |-> halfHeight]
                 IN  [bounds |-> bounds,
                      strokes |-> StrokesOfChild(cell.strokes, bounds),
                      children |-> <<>>,
                      depth |-> cell.depth + 1]
         IN  [cell EXCEPT
                 !.children =
                     <<subdivideCell(Child(cell.bounds.x, cell.bounds.y), cfg),
                       subdivideCell(Child(cell.bounds.x + halfWidth, cell.bounds.y), cfg),
                       subdivideCell(Child(cell.bounds.x, cell.bounds.y + halfHeight), cfg),
                       subdivideCell(Child(cell.bounds.x + halfWidth,
                                           cell.bounds.y + halfHeight), cfg)>>,
                 !.strokes = <<>>]

RECURSIVE countSpatialCells(_)
countSpatialCells(cell) ==
    IF cell.children = <<>> THEN 1
    ELSE 1 + countSpatialCells(cell.children[1]) + countSpatialCells(cell.children[2])
           + countSpatialCells(cell.children[3]) + countSpatialCells(cell.children[4])

\* every stroke of the leaf, whatever its bounds
LeafStrokes(cell, viewport) == cell.strokes

\* queryVisible at a leaf cell
LeafHits(cell, viewport) ==
    SelectSeq(cell.strokes, LAMBDA swb : boundsIntersect(swb.bounds, viewport))

\* queryVisible: the strokes pushed to results, in the order of the pushes
RECURSIVE queryVisible(_, _)
queryVisible(cell, viewport) ==
    IF ~boundsIntersect(cell.bounds, viewport) THEN <<>>
    ELSE IF cell.children = <<>> THEN LeafHits(cell, viewport)
    ELSE queryVisible(cell.children[1], viewport)
             \o queryVisible(cell.children[2], viewport)
             \o queryVisible(cell.children[3], viewport)
             \o queryVisible(cell.children[4], viewport)

\* applyLevelOfDetail, were the distance alone to decide
applyLevelOfDetailByDistance(visibleStrokesWithBounds, viewport, cfg) ==
    LET cx == viewport.x + viewport.width \div 2
        cy == viewport.y + viewport.height \div 2
        Keep(swb) ==
            LET dx == swb.bounds.x + swb.bounds.width \div 2 - cx
                dy == swb.bounds.y + swb.bounds.height \div 2 - cy
            IN  dx * dx + dy * dy <= cfg.lodDistanceThreshold * cfg.lodDistanceThreshold
    IN  SelectSeq(visibleStrokesWithBounds, Keep)

\* applyLevelOfDetail; distance <= threshold is compared on the squares
applyLevelOfDetail(visibleStrokesWithBounds, viewport, cfg) ==
    LET cx == viewport.x + viewport.width \div 2
        cy == viewport.y + viewport.height \div 2
        Keep(swb) ==
            LET dx == swb.bounds.x + swb.bounds.width \div 2 - cx
                dy == swb.bounds.y + swb.bounds.height \div 2 - cy
            IN  \/ dx * dx + dy * dy
                       <= cfg.lodDistanceThreshold * cfg.lodDistanceThreshold
                \/ swb.stroke.size >= 5
    IN  SelectSeq(visibleStrokesWithBounds, Keep)

(***************************************************************************)
(* The culler: v = [strokesWithBounds, spatialIndex, needsRebuild, stats]; *)
(* spatialIndex is <<>> for null and <<cell>> otherwise.                   *)
(***************************************************************************)
CullerState == [strokesWithBounds |-> vStrokes, spatialIndex |-> vIndex,
                needsRebuild |-> vNeedsRebuild, stats |-> vStats]

\* updateIndexStats with estimateIndexMemoryUsage
updateIndexStats(v) ==
    LET spatialCells == IF v.spatialIndex = <<>> THEN 0
                        ELSE countSpatialCells(v.spatialIndex[1])
    IN  [v EXCEPT !.stats.spatialCells = spatialCells,
                  !.stats.indexMemoryUsage = spatialCells * 200 + v.stats.totalStrokes * 8]

\* rebuildSpatialIndex, were the root cell left as it is created
rebuildWithoutSubdividing(v, cfg) ==
    IF Len(v.strokesWithBounds) = 0
    THEN [v EXCEPT !.spatialIndex = <<>>, !.needsRebuild = FALSE]
    ELSE LET root == [bounds |-> calculateOverallBounds(v.strokesWithBounds),
                      strokes |-> v.strokesWithBounds,
                      children |-> <<>>,
                      depth |-> 0]
         IN  updateIndexStats([v EXCEPT !.spatialIndex = <<root>>,
                                        !.needsRebuild = FALSE])

rebuildSpatialIndex(v, cfg) ==
    IF Len(v.strokesWithBounds) = 0
    THEN [v EXCEPT !.spatialIndex = <<>>, !.needsRebuild = FALSE]
    ELSE LET root == [bounds |-> calculateOverallBounds(v.strokesWithBounds),
                      strokes |-> v.strokesWithBounds,
                      children |-> <<>>,
                      depth |-> 0]
         IN  updateIndexStats([v EXCEPT !.spatialIndex = <<subdivideCell(root, cfg)>>,
                                        !.needsRebuild = FALSE])

\* updateStrokes, were the index not marked for rebuilding
updateStrokesWithoutFlag(v, strokes) ==
    [v EXCEPT
        !.strokesWithBounds = [i \in 1..Len(strokes) |->
                                  [stroke |-> strokes[i],
                                   bounds |-> calculateStrokeBounds(strokes[i])]],
        !.stats.totalStrokes = Len(strokes)]

updateStrokes(v, strokes) ==
    [v EXCEPT
        !.strokesWithBounds = [i \in 1..Len(strokes) |->
                                  [stroke |-> strokes[i],
                                   bounds |-> calculateStrokeBounds(strokes[i])]],
        !.stats.totalStrokes = Len(strokes),
        !.needsRebuild = TRUE]

\* getVisibleStrokes: ret is the array returned
getVisibleStrokes(v, viewport, cfg) ==
    LET v1 == IF v.needsRebuild THEN rebuildSpatialIndex(v, cfg) ELSE v
        expandedViewport ==
            [x |-> viewport.x - cfg.cullingMargin,
             y |-> viewport.y - cfg.cullingMargin,
             width |-> viewport.width + cfg.cullingMargin * 2,
             height |-> viewport.height + cfg.cullingMargin * 2]
        visibleStrokesWithBounds ==
            IF v1.spatialIndex # <<>>
            THEN queryVisible(v1.spatialIndex[1], expandedViewport)
            ELSE <<>>
        kept == IF cfg.enableLOD
                THEN applyLevelOfDetail(visibleStrokesWithBounds, viewport, cfg)
                ELSE visibleStrokesWithBounds
        visibleStrokes == [i \in 1..Len(kept) |-> kept[i].stroke]
    IN  [v |-> [v1 EXCEPT !.stats.visibleStrokes = Len(visibleStrokes)],
         ret |-> visibleStrokes]

(***************************************************************************)
(* Calls on the culler.                                                    *)
(***************************************************************************)
\* The strokes handed to the culler: two small strokes far apart, one that
\* spans the middle between them, one with the bounds of the first, and
\* single points beyond that.
CullStroke(i) ==
    CASE i = 1 -> [id |-> 1, points |-> <<0, 0, 10, 10>>, size |-> 5]
      [] i = 2 -> [id |-> 2, points |-> <<1000, 1000, 1010, 1010>>, size |-> 2]
      [] i = 3 -> [id |-> 3, points |-> <<400, 400, 700, 700>>, size |-> 5]
      [] i = 4 -> [id |-> 4, points |-> <<0, 0, 10, 10>>, size |-> 5]
      [] OTHER -> [id |-> i, points |-> <<100 * i, 0>>, size |-> 1]

\* the elements of a set of ids as stroke array, by ascending id
RECURSIVE StrokeList(_)
StrokeList(ids) ==
    IF ids = {} THEN <<>>
    ELSE LET i == CHOOSE x \in ids : \A y \in ids : x <= y
         IN  <<CullStroke(i)>> \o StrokeList(ids \ {i})

CullStrokeLists == {StrokeList(ids) : ids \in SUBSET (1..NumCullStrokes)}

Viewport(x, y, width, height) ==
    [x |-> x * Scale, y |-> y * Scale, width |-> width * Scale, height |-> height * Scale]

Viewports ==
    {Viewport(0, 0, 20, 20),
     Viewport(600, 600, 100, 100),
     Viewport(-1500, -1500, 2600, 2600)}

\* Configurations: cells split as soon as they hold two strokes, without and
\* with level of detail, and the default minStrokesPerCell, which these
\* stroke arrays never reach.
CullerConfigs ==
    {CullerConfig(50, MaxSubdivisions, 1, FALSE, 1000),
     CullerConfig(50, MaxSubdivisions, 1, TRUE, 1000),
     CullerConfig(50, 1, 20, FALSE, 1000)}

SetCuller(v) ==
    /\ vStrokes' = v.strokesWithBounds
    /\ vIndex' = v.spatialIndex
    /\ vNeedsRebuild' = v.needsRebuild
    /\ vStats' = v.stats

CullerCall(op, viewport, ret) == [op |-> op, viewport |-> viewport, ret |-> ret]

NoViewport == Viewport(0, 0, 0, 0)

\* the culler after construction with the given configuration
CullerNew(cfg) ==
    /\ vCfg = cfg
    /\ vStrokes = <<>>
    /\ vIndex = <<>>
    /\ vNeedsRebuild = TRUE
    /\ vStats = [totalStrokes |-> 0, visibleStrokes |-> 0, spatialCells |-> 0,
                 indexMemoryUsage |-> 0]
    /\ vTimer = TRUE
    /\ vGiven = [strokes |-> <<>>, live |-> TRUE]
    /\ vLast = CullerCall("new", NoViewport, <<>>)

UpdateStrokes ==
    \E strokes \in CullStrokeLists :
        /\ SetCuller(updateStrokes(CullerState, strokes))
        /\ vGiven' = [strokes |-> strokes, live |-> TRUE]
        /\ vLast' = CullerCall("updateStrokes", NoViewport, <<>>)
        /\ UNCHANGED <<notCuller, now, vCfg, vTimer>>

GetVisibleStrokes ==
    \E viewport \in Viewports :
        LET r == getVisibleStrokes(CullerState, viewport, vCfg)
        IN  /\ SetCuller(r.v)
            /\ vLast' = CullerCall("getVisibleStrokes", viewport, r.ret)
            /\ UNCHANGED <<notCuller, now, vCfg, vTimer, vGiven>>

\* the setInterval callback of startUpdateTimer
UpdateTimer ==
    /\ vTimer
    /\ SetCuller(IF vNeedsRebuild THEN rebuildSpatialIndex(CullerState, vCfg)
                 ELSE CullerState)
    /\ vLast' = CullerCall("timer", NoViewport, <<>>)
    /\ UNCHANGED <<notCuller, now, vCfg, vTimer, vGiven>>

RebuildIndex ==
    /\ SetCuller(rebuildSpatialIndex([CullerState EXCEPT !.needsRebuild = TRUE], vCfg))
    /\ vLast' = CullerCall("rebuildIndex", NoViewport, <<>>)
    /\ UNCHANGED <<notCuller, now, vCfg, vTimer, vGiven>>

DestroyCuller ==
    /\ vTimer' = FALSE
    /\ vIndex' = <<>>
    /\ vStrokes' = <<>>
    /\ vGiven' = [vGiven EXCEPT !.live = FALSE]
    /\ vLast' = CullerCall("destroy", NoViewport, <<>>)
    /\ UNCHANGED <<notCuller, now, vCfg, vNeedsRebuild, vStats>>

NextCull ==
    \/ UpdateStrokes
    \/ GetVisibleStrokes
    \/ UpdateTimer
    \/ RebuildIndex
    \/ DestroyCuller

(***************************************************************************)
(* StrokePool                                                              *)
(*                                                                         *)
(* A PooledStroke is an object; recs maps the identities (positive         *)
(* integers) of the objects createStroke has made to their fields, and     *)
(* identity 0 is a DrawingStroke the caller has built itself.  The data    *)
(* fields of a record are kept together in fields, points being the        *)
(* length of the points array.  p = [recs, pool, stats], pool the array    *)
(* of identities.                                                          *)
(***************************************************************************)
PoolConfig(initialSize, maxSize, maxPointsPerStroke, memoryThresholdBytes) ==
    [initialSize |-> initialSize,
     maxSize |-> maxSize,
     maxPointsPerStroke |-> maxPointsPerStroke,
     memoryThresholdBytes |-> memoryThresholdBytes]   \* memoryThreshold * 1024 * 1024

PoolState == [recs |-> pRecs, pool |-> pPool, stats |-> pStats]

\* the data fields createStroke and resetStroke write; 0 stands for undefined
ResetFields ==
    [id |-> "", points |-> 0, color |-> "#000000", size |-> 5, timestamp |-> 0,
     userId |-> 0, pressurePoints |-> 0]

\* createStroke: h is the identity of the new object
createStroke(p, h, cfg, t) ==
    [p EXCEPT !.recs = [k \in DOMAIN p.recs \cup {h} |->
                           IF k = h
                           THEN [inUse |-> FALSE, lastUsed |-> t,
                                 capacity |-> cfg.maxPointsPerStroke,
                                 fields |-> ResetFields]
                           ELSE p.recs[k]]]

NewRecord(p) == CHOOSE h \in 1..(Cardinality(DOMAIN p.recs) + 1) : h \notin DOMAIN p.recs

\* initialize, the loop from i on
RECURSIVE InitializeFrom(_, _, _, _)
InitializeFrom(p, i, cfg, t) ==
    IF ~(i < cfg.initialSize) THEN p
    ELSE LET h == NewRecord(p)
             p1 == createStroke(p, h, cfg, t)
         IN  InitializeFrom([p1 EXCEPT !.pool = Append(@, h)], i + 1, cfg, t)

\* initialize that pre-allocates one record fewer
initializeOneShort(p, cfg, t) ==
    LET p1 == InitializeFrom(p, 1, cfg, t)
    IN  [p1 EXCEPT !.stats.poolSize = Len(p1.pool)]

initialize(p, cfg, t) ==
    LET p1 == InitializeFrom(p, 0, cfg, t)
    IN  [p1 EXCEPT !.stats.poolSize = Len(p1.pool)]

\* resetStroke that leaves the fields as the last holder wrote them
resetStrokeKeepingFields(p, h) == p

resetStroke(p, h) == [p EXCEPT !.recs[h].fields = ResetFields]

\* acquire that leaves the recycled record in the free list
acquireWithoutPop(p, cfg, t) ==
    LET h == IF Len(p.pool) > 0 THEN p.pool[Len(p.pool)] ELSE NewRecord(p)
        p1 == IF Len(p.pool) > 0
              THEN resetStroke(p, h)
              ELSE [createStroke(p, h, cfg, t) EXCEPT !.stats.gcTriggers = @ + 1]
    IN  [p |-> [p1 EXCEPT !.recs[h].inUse = TRUE,
                          !.recs[h].lastUsed = t,
                          !.stats.totalAllocations = @ + 1,
                          !.stats.activeObjects = @ + 1],
         ret |-> h]

\* acquire: ret is the record handed out
acquire(p, cfg, t) ==
    LET h == IF Len(p.pool) > 0 THEN p.pool[Len(p.pool)] ELSE NewRecord(p)
        p1 == IF Len(p.pool) > 0
              THEN resetStroke([p EXCEPT !.pool = SubSeq(@, 1, Len(@) - 1)], h)
              ELSE [createStroke(p, h, cfg, t) EXCEPT !.stats.gcTriggers = @ + 1]
    IN  [p |-> [p1 EXCEPT !.recs[h].inUse = TRUE,
                          !.recs[h].lastUsed = t,
                          !.stats.totalAllocations = @ + 1,
                          !.stats.activeObjects = @ + 1],
         ret |-> h]

\* release without the test of _poolInUse
releaseUnchecked(p, h, cfg, t) ==
    IF p.recs[h].fields.points > cfg.maxPointsPerStroke
    THEN [p EXCEPT !.stats.activeObjects = @ - 1]
    ELSE IF Len(p.pool) >= cfg.maxSize
    THEN [p EXCEPT !.stats.activeObjects = @ - 1]
    ELSE LET pool1 == Append(p.pool, h)
         IN  [p EXCEPT !.recs[h].inUse = FALSE,
                       !.recs[h].lastUsed = t,
                       !.pool = pool1,
                       !.stats.totalReturns = @ + 1,
                       !.stats.activeObjects = @ - 1,
                       !.stats.poolSize = Len(pool1)]

release(p, h, cfg, t) ==
    IF ~p.recs[h].inUse THEN p
    ELSE IF p.recs[h].fields.points > cfg.maxPointsPerStroke
    THEN [p EXCEPT !.stats.activeObjects = @ - 1]
    ELSE IF Len(p.pool) >= cfg.maxSize
    THEN [p EXCEPT !.stats.activeObjects = @ - 1]
    ELSE LET pool1 == Append(p.pool, h)
         IN  [p EXCEPT !.recs[h].inUse = FALSE,
                       !.recs[h].lastUsed = t,
                       !.pool = pool1,
                       !.stats.totalReturns = @ + 1,
                       !.stats.activeObjects = @ - 1,
                       !.stats.poolSize = Len(pool1)]

\* updateMemoryUsage, the sum over the pool
RECURSIVE PoolMemory(_, _)
PoolMemory(recs, pool) ==
    IF pool = <<>> THEN 0
    ELSE 200 + recs[Head(pool)].capacity * 8 + PoolMemory(recs, Tail(pool))

updateMemoryUsage(p) ==
    [p EXCEPT !.stats.estimatedMemoryUsage = PoolMemory(p.recs, p.pool)]

\* Array.prototype.sort by _poolLastUsed, which is stable
RECURSIVE InsertByLastUsed(_, _, _)
InsertByLastUsed(recs, sorted, h) ==
    IF sorted = <<>> THEN <<h>>
    ELSE IF recs[Head(sorted)].lastUsed <= recs[h].lastUsed
    THEN <<Head(sorted)>> \o InsertByLastUsed(recs, Tail(sorted), h)
    ELSE <<h>> \o sorted

RECURSIVE SortByLastUsed(_, _)
SortByLastUsed(recs, pool) ==
    IF pool = <<>> THEN <<>>
    ELSE InsertByLastUsed(recs, SortByLastUsed(recs, SubSeq(pool, 1, Len(pool) - 1)),
                          pool[Len(pool)])

poolPerformCleanup(p, cfg) ==
    LET p1 == updateMemoryUsage(p)
    IN  IF p1.stats.estimatedMemoryUsage < cfg.memoryThresholdBytes THEN p1
        ELSE LET sorted == SortByLastUsed(p1.recs, p1.pool)
                 removeCount == Len(sorted) \div 4
                 pool1 == SubSeq(sorted, removeCount + 1, Len(sorted))
             IN  updateMemoryUsage([p1 EXCEPT !.pool = pool1,
                                              !.stats.poolSize = Len(pool1)])

(***************************************************************************)
(* Calls on the pool.                                                      *)
(***************************************************************************)
\* 216 bytes is what updateMemoryUsage counts for a record of capacity 2.
\* Configurations: a pool warmed to its maximum whose cleanup starts once
\* every record is in the free list, an empty pool of two slots, and a pool
\* warmed with two records whose cleanup runs unless the free list is empty,
\* and a pool of one slot warmed with two records ({initialSize: 2, maxSize: 1}).
PoolConfigs ==
    {PoolConfig(MaxRecords, MaxRecords, 2, MaxRecords * 216),
     PoolConfig(0, 2, 2, 100000),
     PoolConfig(2, 2, 2, 216),
     PoolConfig(2, 1, 2, 100000)}

\* what a caller writes into a record it holds: a stroke of n point values
UserFields(n) ==
    [id |-> "s", points |-> n, color |-> "#ff0000", size |-> 3, timestamp |-> 1,
     userId |-> 1, pressurePoints |-> 1]

SetPool(p) ==
    /\ pRecs' = p.recs
    /\ pPool' = p.pool
    /\ pStats' = p.stats

PoolCall(op, rec, wasInUse) == [op |-> op, rec |-> rec, wasInUse |-> wasInUse]

\* The calls since construction: acquires says that all of them were
\* acquire(); cycle says whether they were acquire() and release() of the
\* record just acquired in turn ("idle" after a release, "held" after an
\* acquire, rec the record held) or not ("broken").
PoolRun(acquires, cycle, rec) == [acquires |-> acquires, cycle |-> cycle, rec |-> rec]

OtherPoolCall == PoolRun(FALSE, "broken", 0)

\* the pool after construction with the given configuration, at time 0
PoolNew(cfg) ==
    /\ pCfg = cfg
    /\ LET p == initialize(
                   [recs |-> [k \in {0} |->
                                 [inUse |-> FALSE, lastUsed |-> 0, capacity |-> 0,
                                  fields |-> UserFields(2)]],
                    pool |-> <<>>,
                    stats |-> [poolSize |-> 0, activeObjects |-> 0,
                               totalAllocations |-> 0, totalReturns |-> 0,
                               estimatedMemoryUsage |-> 0, gcTriggers |-> 0]],
                   cfg, 0)
       IN  pRecs = p.recs /\ pPool = p.pool /\ pStats = p.stats
    /\ pTimer = TRUE
    /\ pLast = PoolCall("new", 0, FALSE)
    /\ pRun = PoolRun(TRUE, "idle", 0)

PoolAcquire ==
    LET r == acquire(PoolState, pCfg, now)
    IN  /\ pStats.totalAllocations < MaxAllocations
        /\ Len(pPool) = 0 => Cardinality(DOMAIN pRecs \ {0}) < MaxRecords
        /\ SetPool(r.p)
        /\ pLast' = PoolCall("acquire", r.ret, FALSE)
        /\ pRun' = IF pRun.cycle = "idle"
                   THEN PoolRun(pRun.acquires, "held", r.ret)
                   ELSE PoolRun(pRun.acquires, "broken", 0)
        /\ UNCHANGED <<notPool, now, pCfg, pTimer>>

PoolRelease ==
    \E h \in DOMAIN pRecs :
        LET p == release(PoolState, h, pCfg, now)
        IN  /\ p.stats.activeObjects >= 0 - MaxOverRelease
            /\ SetPool(p)
            /\ pLast' = PoolCall("release", h, pRecs[h].inUse)
            /\ pRun' = IF pRun.cycle = "held" /\ pRun.rec = h
                       THEN PoolRun(FALSE, "idle", 0)
                       ELSE OtherPoolCall
            /\ UNCHANGED <<notPool, now, pCfg, pTimer>>

\* the holder of a record writes its stroke into it
PoolUse ==
    \E h \in DOMAIN pRecs \ {0} :
        \E n \in {pCfg.maxPointsPerStroke, pCfg.maxPointsPerStroke + 1} :
            /\ pRecs[h].inUse
            /\ pRecs' = [pRecs EXCEPT ![h].fields = UserFields(n)]
            /\ pLast' = PoolCall("call", 0, FALSE)
            /\ UNCHANGED <<notPool, now, pCfg, pTimer, pPool, pStats, pRun>>

\* cleanup() called by the owner
PoolCleanup ==
    /\ SetPool(poolPerformCleanup(PoolState, pCfg))
    /\ pLast' = PoolCall("call", 0, FALSE)
    /\ pRun' = OtherPoolCall
    /\ UNCHANGED <<notPool, now, pCfg, pTimer>>

\* the setInterval callback of startCleanupTimer
PoolCleanupTimer ==
    /\ pTimer
    /\ SetPool(poolPerformCleanup(PoolState, pCfg))
    /\ pLast' = PoolCall("call", 0, FALSE)
    /\ pRun' = OtherPoolCall
    /\ UNCHANGED <<notPool, now, pCfg, pTimer>>

PoolGetStats ==
    /\ SetPool(updateMemoryUsage(PoolState))
    /\ pLast' = PoolCall("call", 0, FALSE)
    /\ pRun' = OtherPoolCall
    /\ UNCHANGED <<notPool, now, pCfg, pTimer>>

PoolDestroy ==
    /\ pTimer' = FALSE
    /\ pPool' = <<>>
    /\ pStats' = [pStats EXCEPT !.poolSize = 0]
    /\ pLast' = PoolCall("call", 0, FALSE)
    /\ pRun' = OtherPoolCall
    /\ UNCHANGED <<notPool, now, pCfg, pRecs>>

NextPool ==
    \/ PoolAcquire
    \/ PoolRelease
    \/ PoolUse
    \/ PoolCleanup
    \/ PoolCleanupTimer
    \/ PoolGetStats
    \/ PoolDestroy
    \/ Tick

(***************************************************************************)
(* Specifications: one per component, the other components stay as         *)
(* constructed.                                                            *)
(***************************************************************************)
InitHist ==
    /\ now = 0
    /\ \E cfg \in HistConfigs : HistNew(cfg)
    /\ CacheNew(CacheConfig(2, 100000, 100))
    /\ CullerNew(CullerConfig(50, MaxSubdivisions, 1, FALSE, 1000))
    /\ PoolNew(PoolConfig(0, 1, 2, 100000))

SpecHist == InitHist /\ [][NextHist]_vars

\* The task queue runs every callback that setTimeout(..., 0) has queued.
\* Within NextHist the steps that take a callback off the queue are the steps
\* of DeferredCleanup.
QueuedCleanupRuns == hPending > 0 /\ hPending' = hPending - 1

SpecHistFair == SpecHist /\ WF_hPending(QueuedCleanupRuns)

InitCache ==
    /\ now = 0
    /\ HistNew(HistConfig(2, 100000, 100, 1, TRUE))
    /\ \E cfg \in CacheConfigs : CacheNew(cfg)
    /\ CullerNew(CullerConfig(50, MaxSubdivisions, 1, FALSE, 1000))
    /\ PoolNew(PoolConfig(0, 1, 2, 100000))

SpecCache == InitCache /\ [][NextCache]_vars

\* The cache of two entries, also given strokes of fewer than two points.
InitCacheShort ==
    /\ now = 0
    /\ HistNew(HistConfig(2, 100000, 100, 1, TRUE))
    /\ CacheNew(CacheConfig(2, 100000, 100))
    /\ CullerNew(CullerConfig(50, MaxSubdivisions, 1, FALSE, 1000))
    /\ PoolNew(PoolConfig(0, 1, 2, 100000))

NextCacheShort == CacheCreateShort \/ NextCache

SpecCacheShort == InitCacheShort /\ [][NextCacheShort]_vars

InitCull ==
    /\ now = 0
    /\ HistNew(HistConfig(2, 100000, 100, 1, TRUE))
    /\ CacheNew(CacheConfig(2, 100000, 100))
    /\ \E cfg \in CullerConfigs : CullerNew(cfg)
    /\ PoolNew(PoolConfig(0, 1, 2, 100000))

SpecCull == InitCull /\ [][NextCull]_vars

InitPool ==
    /\ now = 0
    /\ HistNew(HistConfig(2, 100000, 100, 1, TRUE))
    /\ CacheNew(CacheConfig(2, 100000, 100))
    /\ CullerNew(CullerConfig(50, MaxSubdivisions, 1, FALSE, 1000))
    /\ \E cfg \in PoolConfigs : PoolNew(cfg)

SpecPool == InitPool /\ [][NextPool]_vars

(***************************************************************************)
(* Claims on the StrokeHistoryManager (checked under SpecHist)             *)
(***************************************************************************)
IsSweep == hLast.op \in {"cleanup", "cleanupWithParams"}

\* C1: a sweep (cleanup or cleanupWithParams) that starts with at least
\* minRetainedStrokes resident strokes leaves at least minRetainedStrokes
\* resident after the age pass, after the memory pass, after the size pass and
\* when it returns.
C1_SweepKeepsFloor ==
    (IsSweep /\ hLast.before >= hCfg.minRetainedStrokes) =>
        /\ hLast.afterAge >= hCfg.minRetainedStrokes
        /\ hLast.afterMem >= hCfg.minRetainedStrokes
        /\ hLast.afterSize >= hCfg.minRetainedStrokes
        /\ Len(hStrokes) >= hCfg.minRetainedStrokes

\* C2 as stated: right after cleanup() returns, the resident count is at most
\* maxHistorySize.
C2_CountWithinCapAfterCleanup ==
    hLast.op = "cleanup" => Len(hStrokes) <= hCfg.maxHistorySize

\* C2 as amended: right after cleanup() returns, the resident count is at most
\* maxHistorySize, or at most minRetainedStrokes when the floor is the larger
\* of the two (a sweep that starts at or below the floor removes nothing).
C2_CountWithinCapOrFloorAfterCleanup ==
    hLast.op = "cleanup" =>
        Len(hStrokes) <= Max(hCfg.maxHistorySize, hCfg.minRetainedStrokes)

\* C2 witness: a cleanup() that started above the size cap has evicted.
C2_Witness ==
    /\ hLast.op = "cleanup"
    /\ hLast.before > hCfg.maxHistorySize
    /\ Len(hStrokes) < hLast.before
    /\ Len(hStrokes) = hCfg.maxHistorySize

(***************************************************************************)
(* Claims on the StrokeCache (checked under SpecCache)                     *)
(***************************************************************************)
\* C3: right after create(s) returns, get(s.id) returns an entry (not null)
\* whose stored dataHash equals the hash recomputed from s.
C3_GetAfterCreateReturnsCreated ==
    cLast.op = "create" =>
        LET g == get(CacheState, cLast.stroke.id, now)
        IN  /\ g.ret # 0
            /\ g.c.ent[g.ret].dataHash = calculateStrokeHash(cLast.stroke)

\* C4: whenever an eviction made by create takes an entry out of the map, that
\* entry is the least recently used one among the entries in the map.
C4_EvictionDeletesLeastRecentlyUsed ==
    cLast.op = "create" =>
        \A i \in 1..Len(cLast.log) :
            cLast.log[i].deleted # 0 => cLast.log[i].deleted = cLast.log[i].lru

RECURSIVE RunMemory(_)
RunMemory(strokes) ==
    IF strokes = <<>> THEN 0
    ELSE estimateMemoryUsage(tessellateStroke(Head(strokes))) + RunMemory(Tail(strokes))

\* the cache has only seen create() on n > maxCacheSize strokes with distinct
\* ids, whose geometry all together stays within the memory budget
IsDistinctRun ==
    /\ cRun.only
    /\ Len(cRun.strokes) > cCfg.maxCacheSize
    /\ RunMemory(cRun.strokes) <= cCfg.maxMemoryBytes

\* C5: after create() on n > maxCacheSize strokes with distinct ids and nothing
\* else, the memory budget never being reached, the map holds exactly the
\* last maxCacheSize strokes created.
C5_LastCreatedRemain ==
    IsDistinctRun =>
        LET n == Len(cRun.strokes)
            last == (n - cCfg.maxCacheSize + 1)..n
        IN  /\ DOMAIN cMap = {cRun.strokes[i].id : i \in last}
            /\ \A i \in last : cEnt[cMap[cRun.strokes[i].id]].stroke = cRun.strokes[i]

\* C5 witness: three strokes created in a cache of two entries, the last two
\* are the ones cached.
C5_Witness ==
    /\ IsDistinctRun
    /\ cCfg.maxCacheSize = 2
    /\ Len(cRun.strokes) = 3
    /\ DOMAIN cMap = {cRun.strokes[2].id, cRun.strokes[3].id}
    /\ cStats.evictions = 1

\* C6: when create returns, the map holds at most maxCacheSize entries and
\* stats.memoryUsage is at most the memory budget.
C6_BudgetsHoldAfterCreate ==
    cLast.op = "create" =>
        /\ Cardinality(DOMAIN cMap) <= cCfg.maxCacheSize
        /\ cStats.cacheSize <= cCfg.maxCacheSize
        /\ cStats.memoryUsage <= cCfg.maxMemoryBytes

\* C6 witness: a create that went over the memory budget has evicted and
\* returned with an entry in the map, within the budget.
C6_Witness ==
    /\ cLast.op = "create"
    /\ cLast.log # <<>>
    /\ cStats.memoryUsage
           + estimateMemoryUsage(tessellateStroke(cLast.stroke)) > cCfg.maxMemoryBytes
    /\ cStats.memoryUsage <= cCfg.maxMemoryBytes
    /\ cMap # EmptyMap

(***************************************************************************)
(* Claims on the ViewportCuller (checked under SpecCull)                   *)
(***************************************************************************)
\* the bounding box of a stroke, min/max of its points expanded by half the
\* stroke width, as [left, right, top, bottom] in units of 1/Scale pixel
ExactBox(stroke) ==
    LET xs == {stroke.points[i] : i \in {k \in 1..Len(stroke.points) : k % 2 = 1}}
        ys == {stroke.points[i] : i \in {k \in 1..Len(stroke.points) : k % 2 = 0}}
        half == (Scale \div 2) * stroke.size
    IN  [left |-> Scale * (CHOOSE x \in xs : \A z \in xs : x <= z) - half,
         right |-> Scale * (CHOOSE x \in xs : \A z \in xs : x >= z) + half,
         top |-> Scale * (CHOOSE y \in ys : \A z \in ys : y <= z) - half,
         bottom |-> Scale * (CHOOSE y \in ys : \A z \in ys : y >= z) + half]

\* a viewport grown by margin on every side, as [left, right, top, bottom]
Rect(viewport, margin) ==
    [left |-> viewport.x - margin,
     right |-> viewport.x + viewport.width + margin,
     top |-> viewport.y - margin,
     bottom |-> viewport.y + viewport.height + margin]

RectsMeet(a, b) ==
    /\ a.left <= b.right
    /\ b.left <= a.right
    /\ a.top <= b.bottom
    /\ b.top <= a.bottom

Returned == {vLast.ret[i] : i \in 1..Len(vLast.ret)}

Given == {vGiven.strokes[i] : i \in 1..Len(vGiven.strokes)}

\* C7: with LOD disabled, getVisibleStrokes(R) returns every stroke of the
\* array last passed to updateStrokes whose bounding box intersects R.
C7_QueryIsComplete ==
    (vLast.op = "getVisibleStrokes" /\ ~vCfg.enableLOD /\ vGiven.live) =>
        \A s \in Given :
            RectsMeet(ExactBox(s), Rect(vLast.viewport, 0)) => s \in Returned

\* C7 witness: a query on a subdivided index returns the stroke that spans
\* several cells, through a viewport that lies in one quadrant, and culls
\* another stroke.
C7_Witness ==
    /\ vLast.op = "getVisibleStrokes"
    /\ ~vCfg.enableLOD
    /\ vGiven.live
    /\ vIndex # <<>>
    /\ vIndex[1].children # <<>>
    /\ vLast.viewport = Viewport(600, 600, 100, 100)
    /\ CullStroke(3) \in Returned
    /\ RectsMeet(ExactBox(CullStroke(3)), Rect(vLast.viewport, 0))
    /\ Given \ Returned # {}

\* C8: every stroke returned by getVisibleStrokes(R) is in the array last
\* passed to updateStrokes and its bounding box intersects R grown by
\* cullingMargin; of the strokes (0,0)-(10,10) and (1000,1000)-(1010,1010),
\* the viewport {0, 0, 20, 20} returns only the first.
C8_QueryIsSound ==
    vLast.op = "getVisibleStrokes" =>
        /\ \A s \in Returned :
              /\ s \in Given
              /\ RectsMeet(ExactBox(s), Rect(vLast.viewport, vCfg.cullingMargin))
        /\ (/\ vGiven.strokes = <<CullStroke(1), CullStroke(2)>>
            /\ vGiven.live
            /\ vLast.viewport = Viewport(0, 0, 20, 20))
               => vLast.ret = <<CullStroke(1)>>

\* C8 witness: the two strokes of the example, queried with {0, 0, 20, 20}.
C8_Witness ==
    /\ vLast.op = "getVisibleStrokes"
    /\ vGiven.strokes = <<CullStroke(1), CullStroke(2)>>
    /\ vGiven.live
    /\ vLast.viewport = Viewport(0, 0, 20, 20)
    /\ vLast.ret = <<CullStroke(1)>>

\* C9: the array returned by getVisibleStrokes holds each stroke at most once.
C9_QueryReturnsNoDuplicate ==
    vLast.op = "getVisibleStrokes" =>
        \A i, j \in 1..Len(vLast.ret) : i # j => vLast.ret[i].id # vLast.ret[j].id

(***************************************************************************)
(* Claims on the StrokePool (checked under SpecPool)                       *)
(***************************************************************************)
\* C10: release of a record that is not marked in use (a stroke the pool never
\* handed out, or one already back in the free list) changes neither the
\* free list nor any counter nor any record; and the free list never holds
\* a record twice nor a record that is marked in use.
C10_ReleaseOfIdleRecordIsNoOp ==
    /\ [](/\ \A i, j \in 1..Len(pPool) : i # j => pPool[i] # pPool[j]
          /\ \A i \in 1..Len(pPool) : ~pRecs[pPool[i]].inUse)
    /\ [][(pLast'.op = "release" /\ ~pLast'.wasInUse)
              => UNCHANGED <<pRecs, pPool, pStats>>]_vars

\* C10 witness: a record that is in the free list, below maxSize, has been
\* released once more.
C10_Witness ==
    /\ pLast.op = "release"
    /\ ~pLast.wasInUse
    /\ \E i \in 1..Len(pPool) : pPool[i] = pLast.rec
    /\ Len(pPool) < pCfg.maxSize
    /\ pStats.totalReturns > 0

\* C11: the free list of the StrokePool never holds more than maxSize records,
\* after construction and after any sequence of acquire, release and cleanup.
C11_FreeListWithinMaxSize == Len(pPool) <= pCfg.maxSize

\* C12 (as stated): while the calls since construction are acquire() and
\* release() of the acquired record in turn, N acquires so far, the free list
\* holds at most N records.
C12_PoolSizeAtMostCycles ==
    (pRun.cycle # "broken" /\ pStats.totalAllocations >= 1)
        => Len(pPool) <= pStats.totalAllocations

\* C12 (amended): while the calls since construction are acquire() and
\* release() of the acquired record in turn, the free list never holds more
\* records than the constructor put there, or one if it put none: it does not
\* grow with the number of cycles.
C12_PoolSizeAtMostWarmUp ==
    (pRun.cycle # "broken")
        => Len(pPool) <= Max(pCfg.initialSize, Min(1, pStats.totalAllocations))

C12_Witness ==
    /\ pRun.cycle = "idle"
    /\ pStats.totalAllocations = MaxAllocations
    /\ pStats.totalReturns = MaxAllocations
    /\ pCfg.initialSize = 0
    /\ Len(pPool) = 1

\* C13: after m acquire() calls and no other call on a pool constructed with
\* initialSize = k, the statistics count Max(0, m - k) new allocations
\* (gcTriggers): none for the first k acquires, and one for k = 2, m = 3.
C13_MissesAreAcquiresBeyondWarmUp ==
    pRun.acquires
        => pStats.gcTriggers = Max(0, pStats.totalAllocations - pCfg.initialSize)

C13_Witness ==
    /\ pRun.acquires
    /\ pCfg.initialSize = 2
    /\ pStats.totalAllocations = 3
    /\ pStats.gcTriggers = 1

(***************************************************************************)
(* Further claims on the StrokeHistoryManager                               *)
(***************************************************************************)
\* C14: cleanup() is idempotent: in every state, a second cleanup() called
\* right after a first one, with no time elapsing, leaves the resident
\* strokes and the backup store as the first call left them.
C14_SecondCleanupRemovesNothing ==
    LET first == cleanup(HistState, hCfg, now).m
        second == cleanup(first, hCfg, now).m
    IN  /\ second.strokes = first.strokes
        /\ second.backup = first.backup

\* a cleanup() has just evicted and has left more strokes than the floor, so
\* that the next cleanup() runs its three passes
C14_Witness ==
    /\ hLast.op = "cleanup"
    /\ hLast.afterSize < hLast.before
    /\ Len(hStrokes) > hCfg.minRetainedStrokes
    /\ cleanup(HistState, hCfg, now).ran

\* the strokes the age pass of cleanup() evicts
AgedOut(m, cfg, t) ==
    IF Len(m.strokes) <= cfg.minRetainedStrokes THEN {}
    ELSE LET rescored == [i \in 1..Len(m.strokes) |->
                             updateImportanceScore(m.strokes[i], cfg, t)]
             m1 == AgePass(m, SortByImportance(rescored), 1, cfg, t)
         IN  {m.strokes[i].stroke : i \in {j \in 1..Len(m.strokes) :
                                              ~MapHas(m1.strokes, m.strokes[j].stroke.id)}}

\* C15: the age pass of cleanup() evicts a stroke only if now minus the
\* stroke's timestamp exceeds maxStrokeAge.
C15_AgePassEvictsByTimestamp ==
    [][(Cleanup \/ DeferredCleanup)
          => \A s \in AgedOut(HistState, hCfg, now) :
                 now - s.timestamp > hCfg.maxStrokeAge]_vars

QueuedSweepHasRun == hLast.op = "cleanup" /\ "queued" \in DOMAIN hLast

\* C17: addStroke and updateStroke evict nothing themselves: every resident
\* stroke is still resident when the call returns, and so is the stroke
\* passed; when the call leaves the memory total or the resident count above
\* its threshold, one cleanup is queued, and a queued cleanup is eventually
\* run.
C17_EvictionIsDeferred ==
    /\ [][(AddStroke \/ UpdateStroke)
             => /\ \A i \in 1..Len(hStrokes) : MapHas(hStrokes', hStrokes[i].stroke.id)
                /\ MapHas(hStrokes', hLast'.id)
                /\ (hMem' > hCfg.maxMemoryBytes \/ hCount' > hCfg.maxHistorySize)
                       => hPending' = hPending + 1]_vars
    /\ (hPending > 0 /\ ~QueuedSweepHasRun) ~> QueuedSweepHasRun

\* an add has left the count above the cap and the cleanup is queued
C17_Witness ==
    /\ hLast.op \in {"add", "update"}
    /\ hCount > hCfg.maxHistorySize
    /\ hPending > 0

(***************************************************************************)
(* Further claims on the StrokeCache                                       *)
(***************************************************************************)
\* C18: no call is ever served by a StrokeCache, StrokeHistoryManager or
\* StrokePool constructed with a zero or negative budget: such a construction
\* fails and leaves no instance to call.
C18_ZeroBudgetFailsAtConstruction ==
    (cLast.op # "new") =>
        /\ cCfg.maxCacheSize > 0
        /\ cCfg.maxMemoryBytes > 0

\* C19: create() on a stroke of fewer than two points returns an entry whose
\* three buffers are empty and whose bounds are {0, 0, 0, 0}; the entry
\* counts 100 bytes, and when the call evicts nothing it is the entry of the
\* map for the stroke's id and the head of the LRU list.
C19_ShortStrokeGivesEmptyGeometry ==
    (cLast.op = "create" /\ Len(cLast.stroke.points) < 4) =>
        /\ cLast.ret # 0
        /\ cLast.ret \in DOMAIN cEnt =>
               /\ cEnt[cLast.ret].geometry.tessellatedPoints = 0
               /\ cEnt[cLast.ret].geometry.normals = 0
               /\ cEnt[cLast.ret].geometry.indices = 0
               /\ cEnt[cLast.ret].geometry.bounds = [x |-> 0, y |-> 0, width |-> 0, height |-> 0]
               /\ cEnt[cLast.ret].memoryUsage = 100
               /\ cEnt[cLast.ret].stroke = cLast.stroke
        /\ cLast.log = <<>> =>
               /\ cLast.stroke.id \in DOMAIN cMap
               /\ cMap[cLast.stroke.id] = cLast.ret
               /\ cHead = cLast.ret

\* a stroke of a single point has been created next to an ordinary one
C19_Witness ==
    /\ cLast.op = "create"
    /\ cLast.stroke.points = <<7, 7>>
    /\ cLast.log = <<>>
    /\ cHead = cLast.ret
    /\ Cardinality(DOMAIN cMap) = 2
    /\ cStats.memoryUsage > 200

\* the entries of the LRU list from entry h to the tail
RECURSIVE LruListFrom(_, _)
LruListFrom(ent, h) ==
    IF h = 0 THEN <<>> ELSE <<h>> \o LruListFrom(ent, ent[h].next)

\* C20: when create(s) returns, in a cache of at least one entry whose
\* entries do not expire at once, the entry returned has the hash of s as its
\* dataHash, it is the one entry of the map for s.id, and the LRU list holds
\* exactly one entry for s.id.
C20_CreateLeavesOneFreshEntry ==
    (cLast.op = "create" /\ cCfg.maxCacheSize > 0 /\ cCfg.maxAge > 0) =>
        LET list == LruListFrom(cEnt, cHead)
        IN  /\ cLast.ret \in DOMAIN cEnt
            /\ cEnt[cLast.ret].dataHash = calculateStrokeHash(cLast.stroke)
            /\ cLast.stroke.id \in DOMAIN cMap
            /\ cMap[cLast.stroke.id] = cLast.ret
            /\ Cardinality({i \in 1..Len(list) : cEnt[list[i]].id = cLast.stroke.id}) = 1

\* C21: in every reachable state the LRU list holds exactly the entries of
\* the map, each once, from head (no predecessor) to tail (no successor), and
\* prev and next agree: every entry's prev is the entry before it in the list.
C21_ListHoldsExactlyTheMap ==
    LET list == LruListFrom(cEnt, cHead)
    IN  /\ {list[i] : i \in 1..Len(list)} = {cMap[k] : k \in DOMAIN cMap}
        /\ \A i, j \in 1..Len(list) : i # j => list[i] # list[j]
        /\ cTail = IF list = <<>> THEN 0 ELSE list[Len(list)]
        /\ \A i \in 1..Len(list) :
               cEnt[list[i]].prev = IF i = 1 THEN 0 ELSE list[i - 1]

\* the sum of the estimated sizes of the entries of the map under the keys given
RECURSIVE MapMemory(_, _, _)
MapMemory(ent, map, keys) ==
    IF keys = {} THEN 0
    ELSE LET k == CHOOSE x \in keys : TRUE
         IN  ent[map[k]].memoryUsage + MapMemory(ent, map, keys \ {k})

\* C22: in every reachable state stats.memoryUsage is the sum of the
\* estimated sizes of the entries of the map, and 0 when the map is empty.
C22_MemoryIsSumOverMap ==
    cStats.memoryUsage = MapMemory(cEnt, cMap, DOMAIN cMap)

\* C23: a get(id) that returns null changes nothing but stats.totalRequests
\* (and with it the hit ratio): the map, the list, every entry's fields and
\* the other counters are as before.
C23_MissOnlyCounts ==
    [][(CacheGet /\ cLast'.ret = 0) =>
          /\ UNCHANGED <<cEnt, cMap, cHead, cTail>>
          /\ cStats' = [cStats EXCEPT !.totalRequests = @ + 1]]_vars

\* a get has missed in a cache that holds entries
C23_Witness ==
    /\ cLast.op = "get"
    /\ cLast.ret = 0
    /\ Cardinality(DOMAIN cMap) = 2
    /\ cStats.totalRequests > 2

\* the list without entry h, order kept
RECURSIVE ListWithout(_, _)
ListWithout(list, h) ==
    IF list = <<>> THEN <<>>
    ELSE IF Head(list) = h THEN ListWithout(Tail(list), h)
    ELSE <<Head(list)>> \o ListWithout(Tail(list), h)

\* a get(id) that returns an entry puts it at the head of the list and leaves
\* the order of the other entries, the keys of the map and stats.memoryUsage
C24_HitMovesToHead ==
    [][(CacheGet /\ cLast'.ret # 0) =>
          LET h == cLast'.ret
          IN  /\ cHead' = h
              /\ LruListFrom(cEnt', cHead') =
                     <<h>> \o ListWithout(LruListFrom(cEnt, cHead), h)
              /\ DOMAIN cMap' = DOMAIN cMap
              /\ cMap'[cLast'.stroke.id] = h
              /\ cStats'.memoryUsage = cStats.memoryUsage]_vars

\* C24: get(id) on a hit moves the entry to the head, leaves the rest as it
\* was, and so the id just read is the last of the ids present to be evicted:
\* when the next call is a create() of another stroke, the id just read leaves
\* the map only if every id that was present leaves it.
C24_JustReadIsEvictedLast ==
    /\ C24_HitMovesToHead
    /\ [][(cLast.op = "get" /\ cLast.ret # 0 /\ CacheCreate
              /\ cLast'.stroke.id # cLast.stroke.id) =>
             (cLast.stroke.id \notin DOMAIN cMap' =>
                 \A k \in DOMAIN cMap : k \notin DOMAIN cMap')]_vars

\* the entries of the LRU list
LruList == LET list == LruListFrom(cEnt, cHead) IN {list[i] : i \in 1..Len(list)}

\* C25: invalidate(id) and invalidateMany(ids) leave the map, the list and
\* the counters as they are for an id that is not cached; for an id that is
\* cached, afterwards get(id) returns null, the entry is neither in the map
\* nor in the list, and stats.memoryUsage is lower by the entry's size.
C25_InvalidateRemovesOrDoesNothing ==
    /\ [][\A id \in 1..NumCacheIds :
             (cLast'.op = "invalidate" /\ cLast'.stroke.id = id /\ CacheInvalidate) =>
                 IF id \notin DOMAIN cMap
                 THEN UNCHANGED <<cEnt, cMap, cHead, cTail, cStats>>
                 ELSE /\ id \notin DOMAIN cMap'
                      /\ get(CacheState, id, now)'.ret = 0
                      /\ \A k \in DOMAIN cMap' : cMap'[k] # cMap[id]
                      /\ cMap[id] \notin LruList'
                      /\ cStats'.memoryUsage = cStats.memoryUsage - cEnt[cMap[id]].memoryUsage
                      /\ cStats'.invalidations = cStats.invalidations + 1]_vars
    /\ [][\A strokeIds \in InvalidateLists :
             (cLast'.op = "invalidateMany" /\ CacheInvalidateManyOf(strokeIds)) =>
             LET present == {strokeIds[i] : i \in 1..Len(strokeIds)} \cap DOMAIN cMap
             IN  IF present = {}
                 THEN UNCHANGED <<cEnt, cMap, cHead, cTail, cStats>>
                 ELSE /\ DOMAIN cMap' = DOMAIN cMap \ present
                      /\ \A id \in present :
                             /\ get(CacheState, id, now)'.ret = 0
                             /\ cMap[id] \notin LruList'
                      /\ \A k \in DOMAIN cMap' : cMap'[k] = cMap[k]
                      /\ cStats'.memoryUsage =
                             cStats.memoryUsage - MapMemory(cEnt, cMap, present)
                      /\ cStats'.invalidations =
                             cStats.invalidations + Cardinality(present)]_vars

\* invalidateMany has removed the two entries of the cache
C25_Witness ==
    /\ cLast.op = "invalidateMany"
    /\ cStats.invalidations = 2
    /\ cStats.evictions = 0
    /\ cStats.memoryUsage = 0
    /\ cMap = EmptyMap
    /\ cHead = 0

(***************************************************************************)
(* Claims on the accounting, the sweep order and the backup store of the  *)
(* StrokeHistoryManager                                                    *)
(***************************************************************************)
\* the sum of the estimated sizes of the strokes of a resident map
RECURSIVE ResidentMemory(_)
ResidentMemory(strokes) ==
    IF strokes = <<>> THEN 0
    ELSE estimateStrokeMemoryUsage(Head(strokes).stroke) + ResidentMemory(Tail(strokes))

\* C26: in every reachable state stats.currentMemoryUsage is the sum of the
\* estimated sizes of the resident strokes and stats.currentStrokeCount is the
\* size of the resident map.
C26_MemoryIsSumOverResidents ==
    /\ hMem = ResidentMemory(hStrokes)
    /\ hCount = Len(hStrokes)

\* A limit of the backup store: the code names none, and whatever number is
\* taken for it, a drawing has more distinct strokes; here it has NumIds.
BackupLimit == NumIds - 1

\* C29: the number of strokes in the backup store never exceeds a fixed
\* limit, however many distinct strokes are removed with backup or evicted.
C29_BackupStoreIsBounded ==
    Cardinality(DOMAIN hBackup) <= BackupLimit

\* C30: in every reachable state, for every resident id, after
\* removeStroke(id, false) a getStroke(id) returns null and leaves the id not
\* resident; no copy from the backup store is returned in its place.
C30_RemoveWithoutBackupIsFinal ==
    \A strokeId \in Ids :
        MapHas(hStrokes, strokeId) =>
            LET removed == removeStroke(HistState, strokeId, FALSE, hCfg)
                g == getStroke(removed, strokeId, hCfg, now)
            IN  /\ ~MapHas(removed.strokes, strokeId)
                /\ g.ret = HistNull
                /\ ~MapHas(g.m.strokes, strokeId)

\* the ids of a resident map
ResidentIds(strokes) == {strokes[i].stroke.id : i \in 1..Len(strokes)}

\* the configurations a sweep of the manager runs with: its own, and its own
\* with the overrides of cleanupWithParams
SweepConfigs ==
    {[hCfg EXCEPT !.maxStrokeAge = IF maxAge # -1 THEN maxAge ELSE @,
                  !.maxHistorySize = IF maxCount # -1 THEN maxCount ELSE @] :
        maxAge \in {-1, 0}, maxCount \in {-1, 0}}

\* A sweep from m: the age pass evicts only strokes added before the age
\* threshold; what the memory and size passes evict after it is no more
\* important, scored as of the start of the sweep, than what is resident at
\* the end; and they evict nothing when the memory total and the count are
\* within budget once the age pass is done.
SweepEvictsLeastImportant(m, cfg, t) ==
    LET r == cleanup(m, cfg, t)
        rescored == [i \in 1..Len(m.strokes) |-> updateImportanceScore(m.strokes[i], cfg, t)]
        m1 == IF r.ran THEN AgePass(m, SortByImportance(rescored), 1, cfg, t) ELSE m
        left == ResidentIds(r.m.strokes)
        evicted == ResidentIds(m1.strokes) \ left
    IN  /\ left \subseteq ResidentIds(m1.strokes)
        /\ ResidentIds(m1.strokes) \subseteq ResidentIds(m.strokes)
        /\ \A a \in ResidentIds(m.strokes) \ ResidentIds(m1.strokes) :
               MapGet(m.strokes, a).addedAt < t - cfg.maxStrokeAge
        /\ \A a \in evicted, b \in left :
               importanceOf(MapGet(m.strokes, a), cfg, t)
                   <= importanceOf(MapGet(m.strokes, b), cfg, t)
        /\ (m1.mem <= cfg.maxMemoryBytes /\ Len(m1.strokes) <= cfg.maxHistorySize)
               => evicted = {}
        /\ r.afterAge = Len(m1.strokes)
        /\ r.afterAge >= r.afterMem
        /\ r.afterMem >= r.afterSize

\* C27: in every reachable state, a sweep run there (cleanup, or
\* cleanupWithParams with its overrides) runs the age pass, then the memory
\* pass, then the size pass, and the memory and size passes evict in
\* ascending order of importance: no stroke they evict is more important, as
\* scored at the start of the sweep, than a stroke resident at its end.
C27_SweepEvictsInImportanceOrder ==
    \A cfg \in SweepConfigs : SweepEvictsLeastImportant(HistState, cfg, now)

\* a sweep has evicted by memory or size and has left a stroke, which is more
\* important than the evicted one now in the backup store
C27_Witness ==
    /\ IsSweep
    /\ hLast.afterSize < hLast.afterAge
    /\ Len(hStrokes) = 1
    /\ \E id \in DOMAIN hBackup :
           /\ ~MapHas(hStrokes, id)
           /\ hBackup[id].points = 0
           /\ hStrokes[1].isCollaborative

\* C28: updateStroke(stroke) for a resident id leaves the resident count and
\* the other strokes as they are, stores the new data, so that the next
\* getStroke(id) returns it, adds one to modificationCount and changes the
\* memory total by the new estimate minus the old one; for an id that is not
\* resident it does what addStroke(stroke, false) does.
C28_UpdateReplacesOrAdds ==
    [][\A stroke \in HistStrokeInputs :
          (/\ hLast'.op = "update"
           /\ hLast'.id = stroke.id
           /\ MapHas(hStrokes', stroke.id)
           /\ MapGet(hStrokes', stroke.id).stroke = stroke
           /\ UpdateStroke) =>
              IF MapHas(hStrokes, stroke.id)
              THEN LET old == MapGet(hStrokes, stroke.id)
                       new == MapGet(hStrokes', stroke.id)
                   IN  /\ Len(hStrokes') = Len(hStrokes)
                       /\ hCount' = hCount
                       /\ \A i \in 1..Len(hStrokes) :
                              hStrokes[i].stroke.id # stroke.id => hStrokes'[i] = hStrokes[i]
                       /\ getStroke(HistState, stroke.id, hCfg, now)'.ret = stroke
                       /\ new.modificationCount = old.modificationCount + 1
                       /\ hMem' = hMem + estimateStrokeMemoryUsage(stroke)
                                       - estimateStrokeMemoryUsage(old.stroke)
                       /\ hBackup' = hBackup
              ELSE LET added == addStroke(HistState, stroke, FALSE, hCfg, now)
                   IN  /\ hStrokes' = added.strokes
                       /\ hCount' = added.count
                       /\ hMem' = added.mem
                       /\ hBackup' = added.backup]_vars

\* a resident stroke has been updated to data of another size, next to a
\* second resident stroke
C28_Witness ==
    /\ hLast.op = "update"
    /\ Len(hStrokes) = 2
    /\ MapHas(hStrokes, hLast.id)
    /\ MapGet(hStrokes, hLast.id).modificationCount = 1
    /\ MapGet(hStrokes, hLast.id).memoryUsage = 248
    /\ hMem = 464

(***************************************************************************)
(* Further claims on the ViewportCuller (checked under SpecCull)           *)
(***************************************************************************)
\* the four children quarter the bounds of their parent
Quartered(cell) ==
    LET b == cell.bounds
        c == cell.children
    IN  /\ \A i \in 1..4 : /\ 2 * c[i].bounds.width = b.width
                            /\ 2 * c[i].bounds.height = b.height
        /\ c[1].bounds.x = b.x /\ c[1].bounds.y = b.y
        /\ c[2].bounds.x = b.x + c[1].bounds.width /\ c[2].bounds.y = b.y
        /\ c[3].bounds.x = b.x /\ c[3].bounds.y = b.y + c[1].bounds.height
        /\ c[4].bounds.x = b.x + c[1].bounds.width
        /\ c[4].bounds.y = b.y + c[1].bounds.height

\* the cell and everything below it is built as a rebuild over the strokes
\* given builds it
RECURSIVE CellIsWellFormed(_, _, _)
CellIsWellFormed(cell, cfg, strokesWithBounds) ==
    /\ cell.depth <= cfg.maxSubdivisions
    /\ IF cell.children = <<>>
       THEN /\ Len(cell.strokes) > cfg.minStrokesPerCell
                   => cell.depth = cfg.maxSubdivisions
            /\ \A i \in 1..Len(strokesWithBounds) :
                   boundsIntersect(strokesWithBounds[i].bounds, cell.bounds)
                       => \E j \in 1..Len(cell.strokes) :
                              cell.strokes[j] = strokesWithBounds[i]
       ELSE /\ Len(cell.children) = 4
            /\ cell.strokes = <<>>
            /\ Quartered(cell)
            /\ \A i \in 1..4 :
                   /\ cell.children[i].depth = cell.depth + 1
                   /\ CellIsWellFormed(cell.children[i], cfg, strokesWithBounds)

\* C31: after every rebuild each cell of the index is a leaf or has four
\* children that quarter its bounds, a cell with children holds no stroke,
\* every stroke is in every leaf whose bounds intersect its bounding box, no
\* cell is deeper than maxSubdivisions, and a leaf holds more than
\* minStrokesPerCell strokes only at depth maxSubdivisions.
C31_IndexIsWellFormed ==
    (~vNeedsRebuild /\ vIndex # <<>>) =>
        /\ vIndex[1].depth = 0
        /\ vIndex[1].bounds = calculateOverallBounds(vStrokes)
        /\ CellIsWellFormed(vIndex[1], vCfg, vStrokes)

\* an index of two levels has been built over strokes of which one lies in
\* several leaves
C31_Witness ==
    /\ ~vNeedsRebuild
    /\ vIndex # <<>>
    /\ vStats.spatialCells > 5
    /\ Len(vStrokes) >= 3
    /\ \E i \in 1..4 : vIndex[1].children[i].children # <<>>

\* the strokes most recently supplied, with their bounds: the array of the
\* last updateStrokes, and none once destroy() has dropped them
Supplied ==
    IF vGiven.live
    THEN [i \in 1..Len(vGiven.strokes) |->
             [stroke |-> vGiven.strokes[i],
              bounds |-> calculateStrokeBounds(vGiven.strokes[i])]]
    ELSE <<>>

\* the index a rebuild over the strokes most recently supplied gives
FreshIndex ==
    rebuildSpatialIndex([CullerState EXCEPT !.strokesWithBounds = Supplied], vCfg).spatialIndex

\* what a query with the viewport returns from the index given
QueryOf(index, viewport) ==
    LET found == IF index = <<>> THEN <<>>
                 ELSE queryVisible(index[1],
                          [x |-> viewport.x - vCfg.cullingMargin,
                           y |-> viewport.y - vCfg.cullingMargin,
                           width |-> viewport.width + vCfg.cullingMargin * 2,
                           height |-> viewport.height + vCfg.cullingMargin * 2])
        kept == IF vCfg.enableLOD THEN applyLevelOfDetail(found, viewport, vCfg)
                ELSE found
    IN  [i \in 1..Len(kept) |-> kept[i].stroke]

\* C32: updateStrokes only stores the strokes and sets needsRebuild, leaving
\* the index as it is; whenever needsRebuild is clear the index is the one a
\* rebuild over the strokes most recently supplied gives; a timer tick
\* rebuilds only when needsRebuild is set; and every getVisibleStrokes
\* returns what a query of that fresh index returns and leaves needsRebuild
\* clear, whatever calls came before.
C32_QueryUsesFreshIndex ==
    /\ [](~vNeedsRebuild => vIndex = FreshIndex)
    /\ [][UpdateStrokes => (vIndex' = vIndex /\ vNeedsRebuild')]_vars
    /\ [][(UpdateTimer /\ ~vNeedsRebuild) => UNCHANGED <<vIndex, vStrokes, vStats>>]_vars
    /\ [][\A viewport \in Viewports :
             (vLast'.op = "getVisibleStrokes" /\ vLast'.viewport = viewport
                 /\ GetVisibleStrokes) =>
                 /\ vLast'.ret = QueryOf(FreshIndex, viewport)
                 /\ vIndex' = FreshIndex
                 /\ ~vNeedsRebuild']_vars

\* a query has been answered from the index built over the two strokes
\* most recently supplied
C32_Witness ==
    /\ vLast.op = "getVisibleStrokes"
    /\ vGiven.live
    /\ Len(vGiven.strokes) = 2
    /\ vStats.totalStrokes = 2
    /\ Len(vLast.ret) >= 1
    /\ ~vNeedsRebuild
    /\ vIndex = FreshIndex

\* the strokes a query examines: one boundsIntersect test for each stroke of
\* each leaf the viewport reaches
RECURSIVE QueryScans(_, _)
QueryScans(cell, viewport) ==
    IF ~boundsIntersect(cell.bounds, viewport) THEN 0
    ELSE IF cell.children = <<>> THEN Len(cell.strokes)
    ELSE QueryScans(cell.children[1], viewport) + QueryScans(cell.children[2], viewport)
             + QueryScans(cell.children[3], viewport) + QueryScans(cell.children[4], viewport)

\* the cells of a tree that is full down to the depth given
RECURSIVE FullTreeCells(_)
FullTreeCells(depth) == IF depth = 0 THEN 1 ELSE 1 + 4 * FullTreeCells(depth - 1)

\* C33: a rebuild ends with an index no deeper than maxSubdivisions, and
\* when all the strokes supplied share one bounding box a query examines
\* each of them once: as many tests as there are strokes, not as many as
\* there are strokes in all the leaves it reaches.
C33_SharedBoxIsScannedOnce ==
    (/\ vLast.op = "getVisibleStrokes"
     /\ vIndex # <<>>
     /\ \A i, j \in 1..Len(vStrokes) : vStrokes[i].bounds = vStrokes[j].bounds) =>
        /\ vStats.spatialCells <= FullTreeCells(vCfg.maxSubdivisions)
        /\ QueryScans(vIndex[1],
                      [x |-> vLast.viewport.x - vCfg.cullingMargin,
                       y |-> vLast.viewport.y - vCfg.cullingMargin,
                       width |-> vLast.viewport.width + vCfg.cullingMargin * 2,
                       height |-> vLast.viewport.height + vCfg.cullingMargin * 2])
               <= Len(vStrokes)

\* the stroke size that applyLevelOfDetail compares with
MinVisibleSize == 5

\* the centre of the stroke's bounding box lies farther from the centre of
\* the viewport than lodDistanceThreshold (compared on twice the offsets)
FarFrom(stroke, viewport) ==
    LET box == ExactBox(stroke)
        dx2 == (box.left + box.right) - (2 * viewport.x + viewport.width)
        dy2 == (box.top + box.bottom) - (2 * viewport.y + viewport.height)
    IN  dx2 * dx2 + dy2 * dy2 > 4 * vCfg.lodDistanceThreshold * vCfg.lodDistanceThreshold

\* what the query just answered returns with level of detail disabled
PlainResult ==
    LET found == IF vIndex = <<>> THEN <<>>
                 ELSE queryVisible(vIndex[1],
                          [x |-> vLast.viewport.x - vCfg.cullingMargin,
                           y |-> vLast.viewport.y - vCfg.cullingMargin,
                           width |-> vLast.viewport.width + vCfg.cullingMargin * 2,
                           height |-> vLast.viewport.height + vCfg.cullingMargin * 2])
    IN  [i \in 1..Len(found) |-> found[i].stroke]

\* C34 as stated: with enableLOD, getVisibleStrokes(R) returns the strokes
\* of the result without level of detail except those that are far from the
\* centre of R and whose size does not exceed the minimum visible size.
C34_LodDropsFarStrokesNotAboveMinimum ==
    (vLast.op = "getVisibleStrokes" /\ vCfg.enableLOD) =>
        vLast.ret = SelectSeq(PlainResult, LAMBDA s :
                        ~(FarFrom(s, vLast.viewport) /\ s.size <= MinVisibleSize))

\* C34: with enableLOD, getVisibleStrokes(R) returns the strokes of the
\* result without level of detail except those that are far from the centre
\* of R and whose size is below the minimum visible size; a far stroke of
\* exactly that size is kept.  The result is a subset of the other.
C34_LodDropsFarStrokesBelowMinimum ==
    (vLast.op = "getVisibleStrokes" /\ vCfg.enableLOD) =>
        /\ vLast.ret = SelectSeq(PlainResult, LAMBDA s :
                           ~(FarFrom(s, vLast.viewport) /\ s.size < MinVisibleSize))
        /\ \A i \in 1..Len(vLast.ret) :
               \E j \in 1..Len(PlainResult) : PlainResult[j] = vLast.ret[i]

\* a query with level of detail has dropped a thin stroke far from the centre
\* and has kept a far stroke of the minimum visible size
C34_Witness ==
    /\ vLast.op = "getVisibleStrokes"
    /\ vCfg.enableLOD
    /\ CullStroke(2) \in {PlainResult[i] : i \in 1..Len(PlainResult)}
    /\ CullStroke(2) \notin Returned
    /\ FarFrom(CullStroke(3), vLast.viewport)
    /\ CullStroke(3) \in Returned

(***************************************************************************)
(* Claims on the tessellation of the StrokeCache (checked under SpecCache) *)
(***************************************************************************)
\* the x coordinates and the y coordinates of a stroke's points
XsOf(stroke) == {stroke.points[i] : i \in {k \in 1..Len(stroke.points) : k % 2 = 1}}

YsOf(stroke) == {stroke.points[i] : i \in {k \in 1..Len(stroke.points) : k % 2 = 0}}

\* the entry that the create() just made holds the geometry of its stroke
CreatedGeometry ==
    /\ cLast.op = "create"
    /\ Len(cLast.stroke.points) >= 4
    /\ cLast.ret \in DOMAIN cEnt
    /\ cEnt[cLast.ret].stroke = cLast.stroke

\* C35: the bounds stored with the geometry of a stroke of two or more
\* points are the union of all its points, the last one included, grown by
\* half the stroke's size on every side (coordinates doubled, as in
\* tessellateStroke).
C35_BoundsCoverAllPoints ==
    CreatedGeometry =>
        LET s == cLast.stroke
            b == cEnt[cLast.ret].geometry.bounds
            minX == CHOOSE x \in XsOf(s) : \A z \in XsOf(s) : x <= z
            maxX == CHOOSE x \in XsOf(s) : \A z \in XsOf(s) : x >= z
            minY == CHOOSE y \in YsOf(s) : \A z \in YsOf(s) : y <= z
            maxY == CHOOSE y \in YsOf(s) : \A z \in YsOf(s) : y >= z
        IN  /\ b.x = 2 * minX - s.size
            /\ b.y = 2 * minY - s.size
            /\ b.width = 2 * (maxX - minX) + 2 * s.size
            /\ b.height = 2 * (maxY - minY) + 2 * s.size

\* C36: for a stroke of n >= 2 points of which no two consecutive ones are
\* equal, the geometry holds two vertices for each point (4n coordinates)
\* and two triangles for each segment (6(n - 1) indices), every index is
\* below the number of vertices, and a stroke of two points has a triangle.
C36_TwoVerticesPerPoint ==
    LET s == cLast.stroke
        n == Len(s.points) \div 2
        g == cEnt[cLast.ret].geometry
        vertexCount == g.tessellatedPoints \div 2
    IN  (/\ CreatedGeometry
         /\ \A k \in 1..(n - 1) :
                s.points[2 * k - 1] # s.points[2 * k + 1] \/ s.points[2 * k] # s.points[2 * k + 2]) =>
            /\ g.tessellatedPoints = 4 * n
            /\ g.indices = 6 * (n - 1)
            /\ \A i \in 0..vertexCount : (i % 2 = 0 /\ i < vertexCount - 2) => i + 3 < vertexCount
            /\ n = 2 => g.indices >= 3

(***************************************************************************)
(* Further claims on the StrokePool (checked under SpecPool)               *)
(***************************************************************************)
\* C37: the record acquire() hands out, recycled or new, has an empty id, no
\* points, the default color and size, no user id and no pressure data, is
\* marked in use and is not in the free list.
C37_AcquireHandsOutCleanRecord ==
    pLast.op = "acquire" =>
        /\ pRecs[pLast.rec].fields = ResetFields
        /\ pRecs[pLast.rec].inUse
        /\ \A i \in 1..Len(pPool) : pPool[i] # pLast.rec

\* C37 witness: a pool constructed empty has handed out, for its second
\* acquire, the record its first holder released.
C37_Witness ==
    /\ pLast.op = "acquire"
    /\ pCfg.initialSize = 0
    /\ pStats.totalAllocations = 2
    /\ pStats.gcTriggers = 1
    /\ pStats.totalReturns = 1
    /\ pRecs[pLast.rec].fields = ResetFields
    /\ pRecs[pLast.rec].inUse

\* every record in the free list has reset fields
ReleasedRecordsAreReset ==
    \A i \in 1..Len(pPool) : pRecs[pPool[i]].fields = ResetFields

\* a record that was in use when release() was called on it is no longer
\* marked in use, be it pooled or dropped
ReleaseClearsInUse ==
    (pLast.op = "release" /\ pLast.wasInUse) => ~pRecs[pLast.rec].inUse

\* C38: release() resets and unmarks the record: every record in the free
\* list has reset fields, and every record release() took while it was in
\* use, pooled or dropped, is no longer marked in use.
C38_ReleaseResetsAndUnmarks == ReleasedRecordsAreReset /\ ReleaseClearsInUse

\* C39: stats.activeObjects is never negative and never exceeds the number of
\* records marked in use, which every record acquired and not yet released is.
C39_ActiveObjectsIsExact ==
    /\ pStats.activeObjects >= 0
    /\ pStats.activeObjects <= Cardinality({h \in DOMAIN pRecs : pRecs[h].inUse})

\* C40: the poolSize that getStats() returns is the length of the free list.
C40_ReportedPoolSizeIsExact ==
    [][PoolGetStats => pStats'.poolSize = Len(pPool')]_vars

====
